---------------------------- MODULE Spec2Model ----------------------------
(***************************************************************************)
(* A model of the boar-lang interpreter: the Pratt parser                  *)
(* (src/parser/parser.go), the tree-walking evaluator                      *)
(* (src/evaluator/evaluator.go), the builtin functions                     *)
(* (src/unnamed/part_018) and the Environment (src/unnamed/part_023).      *)
(*                                                                         *)
(* A token is a record [type, literal]; a literal is a sequence of         *)
(* one-character strings.  An AST node is a record whose field "node"      *)
(* names the Go type; a Go nil is the record Nil.  A runtime object is a   *)
(* record whose field "type" is the value of Object.Type().                *)
(***************************************************************************)
EXTENDS Integers, Sequences, FiniteSets, TLC

VARIABLES
    input,       \* parser: the token stream the lexer hands to the parser
    pos,         \* parser: index of curToken in input (peekToken is pos + 1)
    errors,      \* parser: Parser.errors
    statements,  \* parser: Program.Statements built so far
    ppc,         \* parser: position of ParseProgram ("parse" | "done")
    idx,         \* evaluator: index of the next statement in evalProgram's loop
    result,      \* evaluator: evalProgram's local variable result
    evlog,       \* evaluator: the block evaluations made so far (observation)
    epc,         \* evaluator: position of evalProgram
                 \* ("idle" | "rejected" | "run" | "done" | "panic")
    heap,        \* objects: the Array and Hash objects allocated so far
    envs,        \* objects: the Environment structs allocated so far
    argv,        \* objects: the argument list a builtin is about to get
    trace,       \* objects: the operations made so far (observation)
    opc,         \* objects: "idle" | "ready" | "aborted" (after a panic)
    lexer        \* lexer: the Lexer struct that NextToken is called on

vars ==
    <<input, pos, errors, statements, ppc, idx, result, evlog, epc,
      heap, envs, argv, trace, opc, lexer>>

parserVars == <<input, pos, errors, statements, ppc, lexer>>
evalVars == <<idx, result, evlog, epc>>
runVars ==
    <<input, pos, errors, statements, ppc, idx, result, evlog, epc, lexer>>
objVars == <<heap, envs, argv, trace, opc>>

(***************************************************************************)
(* Tokens (src/token/token.go)                                             *)
(***************************************************************************)
Tok(t, lit) == [type |-> t, literal |-> lit]

EOFTok == Tok("EOF", <<>>)

\* A token whose literal is its type written out (operators, delimiters).
Sym(t) == Tok(t, <<t>>)

IntTok(digits) == Tok("INT", digits)
IdentTok(name) == Tok("IDENT", <<name>>)

\* Lexer.NextToken seen from the parser: the tokens in order, then EOF for ever.
TokAt(toks, i) == IF i >= 1 /\ i <= Len(toks) THEN toks[i] ELSE EOFTok

(***************************************************************************)
(* Precedence ladder (src/parser/parser.go, const block and precedences)   *)
(***************************************************************************)
LOWEST == 1
EQUALS == 2
LESSGREATER == 3
SUM == 4
PRODUCT == 5
PREFIX == 6
ASSIGN == 7
CALL == 8
INDEX == 9
INTERNAL_CALL == 10

precedences(t) ==
    CASE t \in {"==", "!="} -> EQUALS
      [] t \in {"<", ">"} -> LESSGREATER
      [] t \in {"+", "-"} -> SUM
      [] t \in {"/", "*"} -> PRODUCT
      [] t = "(" -> CALL
      [] t = "[" -> INDEX
      [] t = "." -> INTERNAL_CALL
      [] t = "=" -> ASSIGN
      [] OTHER -> LOWEST

\* Token types with a registered prefix / infix parse function (New).
prefixParseFns ==
    {"IDENT", "INT", "!", "-", "TRUE", "FALSE", "(", "IF", "FUNCTION",
     "STRING", "[", "{"}

infixParseFns ==
    {"+", "-", "/", "*", "==", "!=", "<", ">", "(", "[", ".", "="}

BinaryOps == {"+", "-", "/", "*", "==", "!=", "<", ">"}

(***************************************************************************)
(* Parser state: p = [toks, pos, errors]                                   *)
(***************************************************************************)
NewParser(toks) == [toks |-> toks, pos |-> 1, errors |-> <<>>]

curToken(p) == TokAt(p.toks, p.pos)
peekToken(p) == TokAt(p.toks, p.pos + 1)

nextToken(p) == [p EXCEPT !.pos = @ + 1]

curTokenIs(p, t) == curToken(p).type = t
peekTokenIs(p, t) == peekToken(p).type = t

peekPrecedence(p) == precedences(peekToken(p).type)
curPrecedence(p) == precedences(curToken(p).type)

peekError(p, t) ==
    [p EXCEPT !.errors = Append(@,
        <<"expected next token to be ", t, ", got ", peekToken(p).type, " instead">>)]

noPrefixParseFnError(p, t) ==
    [p EXCEPT !.errors = Append(@,
        <<"no prefix parse function for ", t, " found">>)]

\* expectPeek returns the flag and the parser state after it.
expectPeek(p, t) ==
    IF peekTokenIs(p, t)
    THEN [ok |-> TRUE, p |-> nextToken(p)]
    ELSE [ok |-> FALSE, p |-> peekError(p, t)]

(***************************************************************************)
(* AST nodes (src/ast/ast.go)                                              *)
(***************************************************************************)
\* The nil interface value.
Nil == [node |-> "nil", of |-> "none"]
\* A nil *ast.LetStatement stored in an ast.Statement: not equal to nil.
NilLetStatement == [node |-> "nil", of |-> "LetStatement"]

IsNilNode(n) == n.node = "nil"

\* The Go comparison stmt != nil, negated: true of the nil interface only.
IsUntypedNil(n) == n.node = "nil" /\ n.of = "none"

\* A parse function's result: the node it returns and the parser after it.
R(n, p) == [node |-> n, p |-> p]

(***************************************************************************)
(* strconv.ParseInt(literal, 0, 64) on a run of decimal digits: base 0     *)
(* reads a leading "0" followed by more digits as an octal prefix.         *)
(***************************************************************************)
DigitChars == <<"0", "1", "2", "3", "4", "5", "6", "7", "8", "9">>

DigitVal(c) == (CHOOSE i \in 1..10 : DigitChars[i] = c) - 1

RECURSIVE DigitsValue(_, _, _)
DigitsValue(ds, base, acc) ==
    IF ds = <<>> THEN acc
    ELSE DigitsValue(Tail(ds), base, acc * base + DigitVal(Head(ds)))

\* The digits of the largest int64, 9223372036854775807.
MaxInt64Digits ==
    <<"9", "2", "2", "3", "3", "7", "2", "0", "3", "6", "8", "5", "4", "7",
      "7", "5", "8", "0", "7">>

\* Is the number written ds greater than the one written max (no leading
\* zeros in either)?
GreaterDigits(ds, max) ==
    \/ Len(ds) > Len(max)
    \/ /\ Len(ds) = Len(max)
       /\ \E i \in 1..Len(ds) :
            /\ DigitVal(ds[i]) > DigitVal(max[i])
            /\ \A j \in 1..(i - 1) : ds[j] = max[j]

RECURSIVE Significant(_)
Significant(ds) ==
    IF ds # <<>> /\ Head(ds) = "0" THEN Significant(Tail(ds)) ELSE ds

\* The largest int64 has 21 octal digits, all of them 7.
ParseInt(lit) ==
    IF lit = <<>> THEN [ok |-> FALSE, value |-> 0]
    ELSE IF Len(lit) > 1 /\ lit[1] = "0"
    THEN IF \E i \in 2..Len(lit) : DigitVal(lit[i]) >= 8
         THEN [ok |-> FALSE, value |-> 0]
         ELSE IF Len(Significant(lit)) > 21 THEN [ok |-> FALSE, value |-> 0]
         ELSE [ok |-> TRUE, value |-> DigitsValue(Tail(lit), 8, 0)]
    ELSE IF GreaterDigits(lit, MaxInt64Digits) THEN [ok |-> FALSE, value |-> 0]
    ELSE [ok |-> TRUE, value |-> DigitsValue(lit, 10, 0)]

(***************************************************************************)
(* Lexer (src/unnamed/part_010).  The input is a sequence of bytes, each   *)
(* written as a one-character string; positions count from 0 as in Go.     *)
(* Reading input[i] or slicing input[a:b] outside the string panics.       *)
(***************************************************************************)
\* The byte 0, which readChar also uses for "nothing read".
NUL == "\\0"

NewLexer(in) ==
    [input |-> in, position |-> 0, readPosition |-> 0, ch |-> NUL,
     panicked |-> FALSE]

\* l.input[i]
ByteAt(l, i) == IF i >= 0 /\ i < Len(l.input) THEN l.input[i + 1] ELSE NUL

readChar(l) ==
    [l EXCEPT !.ch = IF l.readPosition >= Len(l.input) THEN NUL
                     ELSE ByteAt(l, l.readPosition),
              !.panicked = @ \/ (l.readPosition < Len(l.input)
                                 /\ l.readPosition < 0),
              !.position = l.readPosition,
              !.readPosition = l.readPosition + 1]

New(in) == readChar(NewLexer(in))

peekChar(l) ==
    IF l.readPosition >= Len(l.input) THEN NUL ELSE ByteAt(l, l.readPosition)

Letters ==
    {"a", "b", "c", "d", "e", "f", "g", "h", "i", "j", "k", "l", "m", "n",
     "o", "p", "q", "r", "s", "t", "u", "v", "w", "x", "y", "z", "_"}

isLetter(ch) == ch \in Letters

isDigit(ch) == \E k \in 1..10 : DigitChars[k] = ch

\* l.input[from:to]: the bytes, or a panic when the bounds are out of range.
Slice(l, from, to) ==
    IF from < 0 \/ from > to \/ to > Len(l.input)
    THEN [literal |-> <<>>, l |-> [l EXCEPT !.panicked = TRUE]]
    ELSE [literal |-> SubSeq(l.input, from + 1, to), l |-> l]

RECURSIVE skipWhitespace(_)
skipWhitespace(l) ==
    IF l.ch \in {" ", "\t", "\n", "\r"} THEN skipWhitespace(readChar(l))
    ELSE l

RECURSIVE readWhile(_, _)
readWhile(l, digits) ==
    IF (IF digits THEN isDigit(l.ch) ELSE isLetter(l.ch))
    THEN readWhile(readChar(l), digits)
    ELSE l

readIdentifier(l) == Slice(readWhile(l, FALSE), l.position,
                           readWhile(l, FALSE).position)

readNumber(l) == Slice(readWhile(l, TRUE), l.position,
                       readWhile(l, TRUE).position)

\* The loop of readString: readChar until a quote or the byte 0.
RECURSIVE readStringLoop(_)
readStringLoop(l) ==
    LET r == readChar(l) IN
    IF r.ch = "\"" \/ r.ch = NUL THEN r ELSE readStringLoop(r)

readString(l) ==
    Slice(readStringLoop(l), l.position + 1, readStringLoop(l).position)

keywords ==
    {<<<<"f", "n">>, "FUNCTION">>, <<<<"l", "e", "t">>, "LET">>,
     <<<<"t", "r", "u", "e">>, "TRUE">>,
     <<<<"f", "a", "l", "s", "e">>, "FALSE">>, <<<<"i", "f">>, "IF">>,
     <<<<"e", "l", "s", "e">>, "ELSE">>,
     <<<<"r", "e", "t", "u", "r", "n">>, "RETURN">>}

LookupIdent(ident) ==
    IF \E k \in keywords : k[1] = ident
    THEN (CHOOSE k \in keywords : k[1] = ident)[2]
    ELSE "IDENT"

newToken(tokenType, ch) == Tok(tokenType, <<ch>>)

\* The token type of a byte that is a token by itself.
SingleByteType(ch) ==
    CASE ch \in {"+", "-", "/", "*", "<", ">", ";", ",", "(", ")", "{", "}"}
            -> ch
      [] OTHER -> "ILLEGAL"

\* NextToken: the token and the Lexer after the call.
NextToken(lx) ==
    LET l == skipWhitespace(lx) IN
    CASE l.ch \in {"=", "!"} ->
            IF peekChar(l) = "="
            THEN LET r == readChar(l) IN
                 [tok |-> Tok(IF l.ch = "=" THEN "==" ELSE "!=",
                              <<l.ch, r.ch>>),
                  l |-> readChar(r)]
            ELSE [tok |-> newToken(l.ch, l.ch), l |-> readChar(l)]
      [] l.ch = "\"" ->
            LET s == readString(l) IN
            [tok |-> Tok("STRING", s.literal), l |-> readChar(s.l)]
      [] l.ch = NUL -> [tok |-> Tok("EOF", <<>>), l |-> readChar(l)]
      [] isLetter(l.ch) ->
            LET s == readIdentifier(l) IN
            [tok |-> Tok(LookupIdent(s.literal), s.literal), l |-> s.l]
      [] isDigit(l.ch) ->
            LET s == readNumber(l) IN
            [tok |-> Tok("INT", s.literal), l |-> s.l]
      [] OTHER ->
            [tok |-> newToken(SingleByteType(l.ch), l.ch), l |-> readChar(l)]

(***************************************************************************)
(* The parse functions.  Each takes the parser state (and, for an infix    *)
(* function, the left operand) and returns R(node, parser state).  A parse *)
(* function calls another through Parse, the table of parse functions by   *)
(* name (as the Go parser calls them through prefixParseFns and            *)
(* infixParseFns): Parse(fn, p, a) is fn applied to parser state p and     *)
(* argument a.                                                             *)
(***************************************************************************)
RECURSIVE Parse(_, _, _)

callParseExpression(p, precedence) == Parse("parseExpression", p, precedence)
callParseStatement(p) == Parse("parseStatement", p, Nil)
callParseBlockStatement(p) == Parse("parseBlockStatement", p, Nil)
callParseExpressionList(p, end) == Parse("parseExpressionList", p, end)
callParseFunctionParameters(p) == Parse("parseFunctionParameters", p, Nil)
callParseIndexAssignment(p, exp, index) ==
    Parse("parseIndexAssignment", p, <<exp, index>>)

\* The prefix / infix function registered for a token type (New).
prefixFnName(t) ==
    CASE t = "IDENT" -> "parseIdentifier"
      [] t = "INT" -> "parseIntegerLiteral"
      [] t \in {"!", "-"} -> "parsePrefixExpression"
      [] t \in {"TRUE", "FALSE"} -> "parseBoolean"
      [] t = "(" -> "parseGroupedExpression"
      [] t = "IF" -> "parseIfExpression"
      [] t = "FUNCTION" -> "parseFunctionLiteral"
      [] t = "STRING" -> "parseStringLiteral"
      [] t = "[" -> "parseArrayLiteral"
      [] t = "{" -> "parseHashLiteral"

infixFnName(t) ==
    CASE t \in BinaryOps -> "parseInfixExpression"
      [] t = "(" -> "parseCallExpression"
      [] t = "[" -> "parseIndexExpression"
      [] t = "." -> "parseInternalCallExpression"
      [] t = "=" -> "parseAssignmentExpression"

IdentifierAt(p) ==
    [node |-> "Identifier", token |-> curToken(p).type,
     name |-> curToken(p).literal]

parseIdentifier(p) == R(IdentifierAt(p), p)

\* parseIntegerLiteral abandoning the literal without a message.
parseIntegerLiteralSilent(p) ==
    LET conv == ParseInt(curToken(p).literal) IN
    IF ~conv.ok THEN R(Nil, p)
    ELSE R([node |-> "IntegerLiteral", value |-> conv.value], p)

parseIntegerLiteral(p) ==
    LET conv == ParseInt(curToken(p).literal) IN
    IF ~conv.ok
    THEN R(Nil, [p EXCEPT !.errors = Append(@,
            <<"could not parse ", "\"">> \o curToken(p).literal
                \o <<"\"", " as integer">>)])
    ELSE R([node |-> "IntegerLiteral", value |-> conv.value], p)

parseBoolean(p) ==
    R([node |-> "Boolean", bvalue |-> curTokenIs(p, "TRUE")], p)

parseStringLiteral(p) ==
    R([node |-> "StringLiteral", svalue |-> curToken(p).literal], p)

parsePrefixExpression(p) ==
    LET op == curToken(p).type
        r == callParseExpression(nextToken(p), PREFIX)
    IN R([node |-> "PrefixExpression", operator |-> op, right |-> r.node], r.p)

\* parseInfixExpression passing LOWEST, not the operator's own precedence,
\* to the call that parses the right operand.
parseInfixExpressionLowest(p, left) ==
    LET op == curToken(p).type
        r == callParseExpression(nextToken(p), LOWEST)
    IN R([node |-> "InfixExpression", operator |-> op, left |-> left,
          right |-> r.node], r.p)

parseInfixExpression(p, left) ==
    LET op == curToken(p).type
        precedence == curPrecedence(p)
        r == callParseExpression(nextToken(p), precedence)
    IN R([node |-> "InfixExpression", operator |-> op, left |-> left,
          right |-> r.node], r.p)

parseGroupedExpression(p) ==
    LET r == callParseExpression(nextToken(p), LOWEST)
        e == expectPeek(r.p, ")")
    IN IF ~e.ok THEN R(Nil, e.p) ELSE R(r.node, e.p)

\* parseBlockStatement: the loop over the statements of the block.
RECURSIVE parseBlockLoop(_, _)
parseBlockLoop(p, stmts) ==
    IF ~curTokenIs(p, "}") /\ ~curTokenIs(p, "EOF")
    THEN LET r == callParseStatement(p)
             keep == IF ~IsUntypedNil(r.node) THEN Append(stmts, r.node)
                     ELSE stmts
         IN parseBlockLoop(nextToken(r.p), keep)
    ELSE R([node |-> "BlockStatement", statements |-> stmts], p)

parseBlockStatement(p) == parseBlockLoop(nextToken(p), <<>>)

parseIfExpression(p) ==
    LET e1 == expectPeek(p, "(") IN
    IF ~e1.ok THEN R(Nil, e1.p) ELSE
    LET c == callParseExpression(nextToken(e1.p), LOWEST)
        e2 == expectPeek(c.p, ")")
    IN
    IF ~e2.ok THEN R(Nil, e2.p) ELSE
    LET e3 == expectPeek(e2.p, "{") IN
    IF ~e3.ok THEN R(Nil, e3.p) ELSE
    LET cons == callParseBlockStatement(e3.p) IN
    IF peekTokenIs(cons.p, "ELSE")
    THEN LET e4 == expectPeek(nextToken(cons.p), "{") IN
         IF ~e4.ok THEN R(Nil, e4.p) ELSE
         LET alt == callParseBlockStatement(e4.p) IN
         R([node |-> "IfExpression", condition |-> c.node,
            consequence |-> cons.node, alternative |-> alt.node], alt.p)
    ELSE R([node |-> "IfExpression", condition |-> c.node,
            consequence |-> cons.node, alternative |-> Nil], cons.p)

\* parseFunctionParameters: a result [list, isnil, p].
RECURSIVE parseFunctionParametersLoop(_, _)
parseFunctionParametersLoop(p, idents) ==
    IF peekTokenIs(p, ",")
    THEN LET q == nextToken(nextToken(p)) IN
         parseFunctionParametersLoop(q, Append(idents, IdentifierAt(q)))
    ELSE LET e == expectPeek(p, ")") IN
         IF ~e.ok THEN [list |-> <<>>, isnil |-> TRUE, p |-> e.p]
         ELSE [list |-> idents, isnil |-> FALSE, p |-> e.p]

parseFunctionParameters(p) ==
    IF peekTokenIs(p, ")")
    THEN [list |-> <<>>, isnil |-> FALSE, p |-> nextToken(p)]
    ELSE LET q == nextToken(p) IN
         parseFunctionParametersLoop(q, <<IdentifierAt(q)>>)

parseFunctionLiteral(p) ==
    LET e1 == expectPeek(p, "(") IN
    IF ~e1.ok THEN R(Nil, e1.p) ELSE
    LET params == callParseFunctionParameters(e1.p)
        e2 == expectPeek(params.p, "{")
    IN
    IF ~e2.ok THEN R(Nil, e2.p) ELSE
    LET body == callParseBlockStatement(e2.p) IN
    R([node |-> "FunctionLiteral", parameters |-> params.list,
       body |-> body.node], body.p)

\* parseExpressionList(end): a result [list, isnil, p].
RECURSIVE parseExpressionListLoop(_, _)
parseExpressionListLoop(st, end) ==
    IF peekTokenIs(st.p, ",")
    THEN LET r == callParseExpression(nextToken(nextToken(st.p)), LOWEST) IN
         parseExpressionListLoop(
            [list |-> Append(st.list, r.node), isnil |-> FALSE, p |-> r.p], end)
    ELSE LET e == expectPeek(st.p, end) IN
         IF ~e.ok THEN [list |-> <<>>, isnil |-> TRUE, p |-> e.p]
         ELSE [list |-> st.list, isnil |-> FALSE, p |-> e.p]

parseExpressionList(p, end) ==
    IF peekTokenIs(p, end)
    THEN [list |-> <<>>, isnil |-> FALSE, p |-> nextToken(p)]
    ELSE LET r == callParseExpression(nextToken(p), LOWEST) IN
         parseExpressionListLoop(
            [list |-> <<r.node>>, isnil |-> FALSE, p |-> r.p], end)

parseCallExpression(p, function) ==
    LET args == callParseExpressionList(p, ")") IN
    R([node |-> "CallExpression", function |-> function,
       arguments |-> args.list], args.p)

parseArrayLiteral(p) ==
    LET els == callParseExpressionList(p, "]") IN
    R([node |-> "ArrayLiteral", elements |-> els.list], els.p)

parseIndexAssignment(p, exp, index) ==
    LET q == nextToken(nextToken(p))
        v == callParseExpression(q, LOWEST)
    IN R([node |-> "IndexAssignment", left |-> exp.left, index |-> index,
          value |-> v.node], v.p)

parseIndexExpression(p, left) ==
    LET i == callParseExpression(nextToken(p), LOWEST)
        exp == [node |-> "IndexExpression", left |-> left, index |-> i.node]
        e == expectPeek(i.p, "]")
    IN
    IF ~e.ok THEN R(Nil, e.p)
    ELSE IF peekTokenIs(e.p, "=")
    THEN callParseIndexAssignment(e.p, exp, i.node)
    ELSE R(exp, e.p)

\* parseHashLiteral: Pairs kept in the order of the source text.
RECURSIVE parseHashLoop(_, _)
parseHashLoop(p, pairs) ==
    IF ~peekTokenIs(p, "}")
    THEN LET k == callParseExpression(nextToken(p), LOWEST)
             e1 == expectPeek(k.p, ":")
         IN
         IF ~e1.ok THEN R(Nil, e1.p) ELSE
         LET v == callParseExpression(nextToken(e1.p), LOWEST)
             added == Append(pairs, <<k.node, v.node>>)
         IN
         IF peekTokenIs(v.p, "}") THEN parseHashLoop(v.p, added)
         ELSE LET e2 == expectPeek(v.p, ",") IN
              IF ~e2.ok THEN R(Nil, e2.p) ELSE parseHashLoop(e2.p, added)
    ELSE LET e3 == expectPeek(p, "}") IN
         IF ~e3.ok THEN R(Nil, e3.p)
         ELSE R([node |-> "HashLiteral", pairs |-> pairs], e3.p)

parseHashLiteral(p) == parseHashLoop(p, <<>>)

parseInternalCallExpressionNoArguments(p, left) ==
    IF ~curTokenIs(p, ".") THEN R(Nil, p)
    ELSE IF left.node # "Identifier" THEN R(Nil, p)
    ELSE
    LET q == nextToken(p)
        fn == parseIdentifier(q).node
        e == expectPeek(q, "(")
    IN
    IF ~e.ok THEN R(Nil, e.p) ELSE
    LET args == callParseExpressionList(e.p, ")") IN
    R([node |-> "InternalFunctionCall", caller |-> left, function |-> fn,
       arguments |-> <<>>], args.p)

parseInternalCallExpression(p, left) ==
    IF ~curTokenIs(p, ".") THEN R(Nil, p)
    ELSE IF left.node # "Identifier" THEN R(Nil, p)
    ELSE
    LET q == nextToken(p)
        fn == parseIdentifier(q).node
        e == expectPeek(q, "(")
    IN
    IF ~e.ok THEN R(Nil, e.p) ELSE
    LET args == callParseExpressionList(e.p, ")") IN
    R([node |-> "InternalFunctionCall", caller |-> left, function |-> fn,
       arguments |-> args.list], args.p)

parseAssignmentExpression(p, left) ==
    IF ~curTokenIs(p, "=") THEN R(Nil, p)
    ELSE IF left.node # "Identifier" THEN R(Nil, p)
    ELSE
    LET v == callParseExpression(nextToken(p), LOWEST)
        q == IF peekTokenIs(v.p, ";") THEN nextToken(v.p) ELSE v.p
    IN R([node |-> "AssignmentExpression", name |-> left, value |-> v.node], q)

\* The for loop of parseExpression; r holds leftExp and the parser state.
RECURSIVE parseExpressionLoop(_, _)
parseExpressionLoop(r, precedence) ==
    IF ~peekTokenIs(r.p, ";") /\ precedence < peekPrecedence(r.p)
    THEN IF peekToken(r.p).type \notin infixParseFns
         THEN r
         ELSE LET q == nextToken(r.p) IN
              parseExpressionLoop(
                Parse(infixFnName(curToken(q).type), q, r.node), precedence)
    ELSE r

parseExpression(p, precedence) ==
    IF curToken(p).type \notin prefixParseFns
    THEN R(Nil, noPrefixParseFnError(p, curToken(p).type))
    ELSE parseExpressionLoop(
            Parse(prefixFnName(curToken(p).type), p, Nil), precedence)

parseLetStatement(p) ==
    LET e1 == expectPeek(p, "IDENT") IN
    IF ~e1.ok THEN R(NilLetStatement, e1.p) ELSE
    LET name == IdentifierAt(e1.p)
        e2 == expectPeek(e1.p, "=")
    IN
    IF ~e2.ok THEN R(NilLetStatement, e2.p) ELSE
    LET v == callParseExpression(nextToken(e2.p), LOWEST)
        q == IF peekTokenIs(v.p, ";") THEN nextToken(v.p) ELSE v.p
    IN R([node |-> "LetStatement", name |-> name, value |-> v.node], q)

parseReturnStatement(p) ==
    LET v == callParseExpression(nextToken(p), LOWEST)
        q == IF peekTokenIs(v.p, ";") THEN nextToken(v.p) ELSE v.p
    IN R([node |-> "ReturnStatement", returnValue |-> v.node], q)

parseExpressionStatement(p) ==
    LET v == callParseExpression(p, LOWEST)
        q == IF peekTokenIs(v.p, ";") THEN nextToken(v.p) ELSE v.p
    IN R([node |-> "ExpressionStatement", expression |-> v.node], q)

\* for ( let IDENT = expr ; expr ; IDENT = expr ) { stmt* } ;?
\* The parser of the for statement: the let initializer, the condition,
\* the assignment that updates the counter, and the block.
parseForLoopStatement(p) ==
    LET e1 == expectPeek(p, "(") IN
    IF ~e1.ok THEN R(Nil, e1.p) ELSE
    LET e2 == expectPeek(e1.p, "LET") IN
    IF ~e2.ok THEN R(Nil, e2.p) ELSE
    LET init == parseLetStatement(e2.p) IN
    IF IsNilNode(init.node) THEN R(Nil, init.p) ELSE
    LET cond == callParseExpression(nextToken(init.p), LOWEST)
        e3 == expectPeek(cond.p, ";")
    IN
    IF ~e3.ok THEN R(Nil, e3.p) ELSE
    LET update == callParseExpression(nextToken(e3.p), LOWEST) IN
    IF update.node.node # "AssignmentExpression" THEN R(Nil, update.p) ELSE
    LET e4 == expectPeek(update.p, ")") IN
    IF ~e4.ok THEN R(Nil, e4.p) ELSE
    LET e5 == expectPeek(e4.p, "{") IN
    IF ~e5.ok THEN R(Nil, e5.p) ELSE
    LET body == callParseBlockStatement(e5.p)
        q == IF peekTokenIs(body.p, ";") THEN nextToken(body.p) ELSE body.p
    IN R([node |-> "ForLoopStatement", counterVar |-> init.node,
          loopCondition |-> cond.node, counterUpdate |-> update.node,
          loopBlock |-> body.node], q)

\* The FOR case is that of the for statement (ast.ForLoopStatement).
parseStatement(p) ==
    CASE curToken(p).type = "LET" -> parseLetStatement(p)
      [] curToken(p).type = "RETURN" -> parseReturnStatement(p)
      [] curToken(p).type = "FOR" -> parseForLoopStatement(p)
      [] OTHER -> parseExpressionStatement(p)

Parse(fn, p, a) ==
    CASE fn = "parseExpression" -> parseExpression(p, a)
      [] fn = "parseStatement" -> parseStatement(p)
      [] fn = "parseBlockStatement" -> parseBlockStatement(p)
      [] fn = "parseExpressionList" -> parseExpressionList(p, a)
      [] fn = "parseFunctionParameters" -> parseFunctionParameters(p)
      [] fn = "parseIndexAssignment" -> parseIndexAssignment(p, a[1], a[2])
      [] fn = "parseIdentifier" -> parseIdentifier(p)
      [] fn = "parseIntegerLiteral" -> parseIntegerLiteral(p)
      [] fn = "parsePrefixExpression" -> parsePrefixExpression(p)
      [] fn = "parseBoolean" -> parseBoolean(p)
      [] fn = "parseGroupedExpression" -> parseGroupedExpression(p)
      [] fn = "parseIfExpression" -> parseIfExpression(p)
      [] fn = "parseFunctionLiteral" -> parseFunctionLiteral(p)
      [] fn = "parseStringLiteral" -> parseStringLiteral(p)
      [] fn = "parseArrayLiteral" -> parseArrayLiteral(p)
      [] fn = "parseHashLiteral" -> parseHashLiteral(p)
      [] fn = "parseInfixExpression" -> parseInfixExpression(p, a)
      [] fn = "parseCallExpression" -> parseCallExpression(p, a)
      [] fn = "parseIndexExpression" -> parseIndexExpression(p, a)
      [] fn = "parseInternalCallExpression" ->
            parseInternalCallExpression(p, a)
      [] fn = "parseAssignmentExpression" -> parseAssignmentExpression(p, a)

\* ParseProgramStep without the nextToken that ends the iteration.
ParseProgramStepStaying(p, stmts) ==
    LET r == callParseStatement(p) IN
    [stmts |-> IF ~IsUntypedNil(r.node) THEN Append(stmts, r.node) ELSE stmts,
     p |-> r.p]

\* One iteration of ParseProgram's loop: [stmts, p] after it.
ParseProgramStep(p, stmts) ==
    LET r == callParseStatement(p) IN
    [stmts |-> IF ~IsUntypedNil(r.node) THEN Append(stmts, r.node) ELSE stmts,
     p |-> nextToken(r.p)]

RECURSIVE ParseProgramLoop(_, _)
ParseProgramLoop(p, stmts) ==
    IF ~curTokenIs(p, "EOF")
    THEN LET s == ParseProgramStep(p, stmts) IN ParseProgramLoop(s.p, s.stmts)
    ELSE [stmts |-> stmts, p |-> p]

\* ParseProgram on a whole token stream: [stmts, errors].
ParseProgram(toks) ==
    LET s == ParseProgramLoop(NewParser(toks), <<>>) IN
    [stmts |-> s.stmts, errors |-> s.p.errors]


(***************************************************************************)
(* Runtime objects (package object) and the evaluator's singletons         *)
(***************************************************************************)
Integer(v) == [type |-> "INTEGER", value |-> v]
Boolean(b) == [type |-> "BOOLEAN", bvalue |-> b]
TRUE_OBJ == Boolean(TRUE)
FALSE_OBJ == Boolean(FALSE)
NULL == [type |-> "NULL"]
ReturnValue(o) == [type |-> "RETURN_VALUE", wrapped |-> o]
\* The nil object.Object: Eval's "return nil".  Calling Type() on it panics.
GoNil == [type |-> "nil"]
\* A Go run-time panic, which nothing in the interpreter recovers: the
\* process aborts.  It is no object; it stands for the aborted evaluation.
Panic(why) == [type |-> "PANIC", reason |-> why]

IsPanic(o) == o.type = "PANIC"

\* An object.Object that is not nil.
IsObject(o) == o.type \notin {"nil", "PANIC"}

\* newError: the message is kept as the sequence of its formatted pieces.
newError(pieces) == [type |-> "ERROR", message |-> pieces]

isError(o) == IF o.type # "nil" THEN o.type = "ERROR" ELSE FALSE

\* An Error or an aborted evaluation: what the caller passes up as it is.
Stops(o) == IsPanic(o) \/ isError(o)

nativeBoolToBooleanObject(b) == IF b THEN TRUE_OBJ ELSE FALSE_OBJ

\* Go's == on two object.Object interface values holding pointers: identity.
\* TRUE, FALSE and NULL are single instances and nil equals nil; every
\* other object is allocated by the Eval call that returned it, so the
\* results of two Eval calls are never the same instance.
SameInstance(a, b) ==
    /\ a.type \in {"BOOLEAN", "NULL", "nil"}
    /\ a.type = b.type
    /\ (a.type = "BOOLEAN" => a.bvalue = b.bvalue)

\* An evaluation's result: the object and the operations it performed.
Ret(o, log) == [obj |-> o, log |-> log]

\* Log entries: an operator applied to operands, a block evaluated.
OpEntry(op, operands) == [kind |-> "op", operator |-> op, operands |-> operands]
BlockEntry(n, vals, res) ==
    [kind |-> "block", size |-> n, values |-> vals, result |-> res]

(***************************************************************************)
(* Go integer division: truncated toward zero; a zero divisor panics.      *)
(***************************************************************************)
Abs(x) == IF x < 0 THEN -x ELSE x

GoQuotient(a, b) ==
    IF (a < 0) = (b < 0) THEN Abs(a) \div Abs(b) ELSE -(Abs(a) \div Abs(b))

evalBangOperatorExpression(right) ==
    CASE right = TRUE_OBJ -> FALSE_OBJ
      [] right = FALSE_OBJ -> TRUE_OBJ
      [] right = NULL -> TRUE_OBJ
      [] OTHER -> FALSE_OBJ

evalMinusPrefixOperatorExpression(right) ==
    IF right.type = "nil" THEN Panic("nil pointer dereference")
    ELSE IF right.type # "INTEGER"
    THEN newError(<<"unknown operator: -", right.type>>)
    ELSE Integer(-right.value)

evalPrefixExpression(operator, right) ==
    CASE operator = "!" -> evalBangOperatorExpression(right)
      [] operator = "-" -> evalMinusPrefixOperatorExpression(right)
      [] OTHER -> IF right.type = "nil" THEN Panic("nil pointer dereference")
                  ELSE newError(<<"unknown operator: ", operator, right.type>>)

evalIntegerInfixExpression(operator, left, right) ==
    LET leftVal == left.value
        rightVal == right.value
    IN
    CASE operator = "+" -> Integer(leftVal + rightVal)
      [] operator = "-" -> Integer(leftVal - rightVal)
      [] operator = "*" -> Integer(leftVal * rightVal)
      [] operator = "/" ->
            IF rightVal = 0 THEN Panic("integer divide by zero")
            ELSE Integer(GoQuotient(leftVal, rightVal))
      [] operator = "<" -> nativeBoolToBooleanObject(leftVal < rightVal)
      [] operator = ">" -> nativeBoolToBooleanObject(leftVal > rightVal)
      [] operator = "==" -> nativeBoolToBooleanObject(leftVal = rightVal)
      [] operator = "!=" -> nativeBoolToBooleanObject(leftVal # rightVal)
      [] OTHER -> newError(<<"unknown operator: ", left.type, " ", operator,
                             " ", right.type>>)

\* a.Type() == INTEGER_OBJ && b.Type() == INTEGER_OBJ: "panic" when a Type()
\* call it makes is on nil (b.Type() is called only if a is an Integer).
bothAreIntegers(a, b) ==
    IF a.type = "nil" THEN "panic"
    ELSE IF a.type # "INTEGER" THEN "false"
    ELSE IF b.type = "nil" THEN "panic"
    ELSE IF b.type = "INTEGER" THEN "true" ELSE "false"

\* evalInfixExpression testing the operand types before == and !=.
evalInfixExpressionTypesFirst(operator, left, right) ==
    LET ints == bothAreIntegers(left, right) IN
    CASE ints = "panic" -> Panic("nil pointer dereference")
      [] ints = "true" -> evalIntegerInfixExpression(operator, left, right)
      [] OTHER ->
            IF right.type = "nil" THEN Panic("nil pointer dereference")
            ELSE IF left.type # right.type
            THEN newError(<<"type mismatch: ", left.type, " ", operator, " ",
                            right.type>>)
            ELSE IF operator = "=="
            THEN nativeBoolToBooleanObject(SameInstance(left, right))
            ELSE IF operator = "!="
            THEN nativeBoolToBooleanObject(~SameInstance(left, right))
            ELSE newError(<<"unknown operator: ", left.type, " ", operator,
                            " ", right.type>>)

evalInfixExpression(operator, left, right) ==
    LET ints == bothAreIntegers(left, right) IN
    CASE ints = "panic" -> Panic("nil pointer dereference")
      [] ints = "true" -> evalIntegerInfixExpression(operator, left, right)
      [] ints = "false" /\ operator = "==" ->
            nativeBoolToBooleanObject(SameInstance(left, right))
      [] ints = "false" /\ operator = "!=" ->
            nativeBoolToBooleanObject(~SameInstance(left, right))
      [] OTHER ->
            IF right.type = "nil" THEN Panic("nil pointer dereference")
            ELSE IF left.type # right.type
            THEN newError(<<"type mismatch: ", left.type, " ", operator, " ",
                            right.type>>)
            ELSE newError(<<"unknown operator: ", left.type, " ", operator,
                            " ", right.type>>)

\* isTruthy taking the Integer 0 for false as well.
isTruthyZeroFalse(obj) ==
    CASE obj = NULL -> FALSE
      [] obj = TRUE_OBJ -> TRUE
      [] obj = FALSE_OBJ -> FALSE
      [] obj = Integer(0) -> FALSE
      [] OTHER -> TRUE

isTruthy(obj) ==
    CASE obj = NULL -> FALSE
      [] obj = TRUE_OBJ -> TRUE
      [] obj = FALSE_OBJ -> FALSE
      [] OTHER -> TRUE

(***************************************************************************)
(* Eval (src/evaluator/evaluator.go).  Eval(node) is Ret(object, log); a   *)
(* panic in a nested call aborts every caller, so it is passed up as is.   *)
(***************************************************************************)
RECURSIVE Eval(_)
RECURSIVE evalBlockLoop(_, _, _, _)

\* evalBlockLoop going on to the next statement after a ReturnValue.
evalBlockLoopPastReturn(stmts, i, vals, log) ==
    IF i > Len(stmts)
    THEN LET res == IF vals = <<>> THEN GoNil ELSE vals[Len(vals)] IN
         Ret(res, Append(log, BlockEntry(Len(stmts), vals, res)))
    ELSE LET r == Eval(stmts[i])
             vals2 == Append(vals, r.obj)
             log2 == log \o r.log
         IN
         IF IsPanic(r.obj) THEN Ret(r.obj, log2)
         ELSE IF r.obj.type = "ERROR"
         THEN Ret(r.obj, Append(log2, BlockEntry(Len(stmts), vals2, r.obj)))
         ELSE evalBlockLoop(stmts, i + 1, vals2, log2)

\* The loop of evalBlockStatement from statement i on; vals are the values
\* of the statements evaluated so far and log what they performed.
evalBlockLoop(stmts, i, vals, log) ==
    IF i > Len(stmts)
    THEN LET res == IF vals = <<>> THEN GoNil ELSE vals[Len(vals)] IN
         Ret(res, Append(log, BlockEntry(Len(stmts), vals, res)))
    ELSE LET r == Eval(stmts[i])
             vals2 == Append(vals, r.obj)
             log2 == log \o r.log
         IN
         IF IsPanic(r.obj) THEN Ret(r.obj, log2)
         ELSE IF r.obj.type # "nil" /\ r.obj.type \in {"RETURN_VALUE", "ERROR"}
         THEN Ret(r.obj, Append(log2, BlockEntry(Len(stmts), vals2, r.obj)))
         ELSE evalBlockLoop(stmts, i + 1, vals2, log2)

evalBlockStatement(block) == evalBlockLoop(block.statements, 1, <<>>, <<>>)

evalIfExpression(ie) ==
    LET c == Eval(ie.condition) IN
    IF IsPanic(c.obj) THEN c
    ELSE IF isError(c.obj) THEN c
    ELSE IF isTruthy(c.obj)
    THEN LET b == Eval(ie.consequence) IN Ret(b.obj, c.log \o b.log)
    ELSE IF ~IsNilNode(ie.alternative)
    THEN LET b == Eval(ie.alternative) IN Ret(b.obj, c.log \o b.log)
    ELSE Ret(NULL, c.log)

evalPrefixNode(node) ==
    LET r == Eval(node.right) IN
    IF IsPanic(r.obj) THEN r
    ELSE IF isError(r.obj) THEN r
    ELSE Ret(evalPrefixExpression(node.operator, r.obj),
             Append(r.log, OpEntry(node.operator, <<r.obj>>)))

evalInfixNode(node) ==
    LET l == Eval(node.left) IN
    IF IsPanic(l.obj) THEN l ELSE
    LET r == Eval(node.right)
        log == l.log \o r.log
    IN
    IF IsPanic(r.obj) THEN Ret(r.obj, log)
    ELSE IF isError(l.obj) THEN Ret(l.obj, log)
    ELSE IF isError(r.obj) THEN Ret(l.obj, log)
    ELSE Ret(evalInfixExpression(node.operator, l.obj, r.obj),
             Append(log, OpEntry(node.operator, <<l.obj, r.obj>>)))

evalReturnStatement(node) ==
    LET v == Eval(node.returnValue) IN
    IF IsPanic(v.obj) THEN v
    ELSE IF isError(v.obj) THEN v
    ELSE Ret(ReturnValue(v.obj), v.log)

Eval(node) ==
    CASE node.node = "ExpressionStatement" -> Eval(node.expression)
      [] node.node = "IntegerLiteral" -> Ret(Integer(node.value), <<>>)
      [] node.node = "Boolean" ->
            Ret(nativeBoolToBooleanObject(node.bvalue), <<>>)
      [] node.node = "PrefixExpression" -> evalPrefixNode(node)
      [] node.node = "InfixExpression" -> evalInfixNode(node)
      [] node.node = "BlockStatement" -> evalBlockStatement(node)
      [] node.node = "IfExpression" -> evalIfExpression(node)
      [] node.node = "ReturnStatement" -> evalReturnStatement(node)
      [] OTHER -> Ret(GoNil, <<>>)

\* One iteration of evalProgram's loop on statement i: the new value of
\* result, whether the loop returns at once, and the log of the iteration.
evalProgramStep(stmt) ==
    LET r == Eval(stmt) IN
    CASE IsPanic(r.obj) -> [result |-> r.obj, pc |-> "panic", log |-> r.log]
      [] r.obj.type = "RETURN_VALUE" ->
            [result |-> r.obj.wrapped, pc |-> "done", log |-> r.log]
      [] r.obj.type = "ERROR" -> [result |-> r.obj, pc |-> "done", log |-> r.log]
      [] OTHER -> [result |-> r.obj, pc |-> "run", log |-> r.log]

(***************************************************************************)
(* Environment (src/unnamed/part_023).  envs holds the Environment         *)
(* structs; outer is the index of the enclosing one, 0 for nil.            *)
(***************************************************************************)
NewEnvironment == [store |-> <<>>, outer |-> 0]

\* NewEnclosedEnvironment leaving the new Environment without an outer one.
NewEnclosedEnvironmentAlone(outer) == NewEnvironment

NewEnclosedEnvironment(outer) == [NewEnvironment EXCEPT !.outer = outer]

RECURSIVE Get(_, _, _)

\* Get asking the outer scope first.
GetOuterFirst(es, e, name) ==
    LET up == IF es[e].outer # 0 THEN Get(es, es[e].outer, name)
              ELSE [obj |-> GoNil, ok |-> FALSE]
    IN IF up.ok THEN up
       ELSE IF name \in DOMAIN es[e].store
       THEN [obj |-> es[e].store[name], ok |-> TRUE]
       ELSE [obj |-> GoNil, ok |-> FALSE]

Get(es, e, name) ==
    LET ok == name \in DOMAIN es[e].store
        obj == IF ok THEN es[e].store[name] ELSE GoNil
    IN IF ~ok /\ es[e].outer # 0 THEN Get(es, es[e].outer, name)
       ELSE [obj |-> obj, ok |-> ok]

Set(es, e, name, val) ==
    [es EXCEPT ![e].store =
        [n \in DOMAIN @ \cup {name} |-> IF n = name THEN val ELSE @[n]]]

\* name = val evaluated in Environment e: the name has to be found by Get,
\* and the value is then bound by Set on the Environment of the evaluation.
evalAssignmentExpression(es, e, name, val) ==
    IF ~Get(es, e, name).ok
    THEN [obj |-> newError(<<"identifier not found: ", name>>), envs |-> es]
    ELSE [obj |-> val, envs |-> Set(es, e, name, val)]

(***************************************************************************)
(* The object heap.  An Array object is a pointer to a struct whose        *)
(* Elements field is a Go slice: a backing array (buf), an offset into it  *)
(* and a length; the capacity is what is left of the backing array.  A     *)
(* Hash object is a pointer to a struct holding the map Pairs.             *)
(***************************************************************************)
String(chars) == [type |-> "STRING", svalue |-> chars]
ArrayObj(k) == [type |-> "ARRAY", ref |-> k]
HashObj(k) == [type |-> "HASH", href |-> k]
\* &object.Function{Parameters, Body, Env}; env is the index in h.envs of
\* the Environment the literal was evaluated in.
Function(parameters, body, env) ==
    [type |-> "FUNCTION", parameters |-> parameters, body |-> body,
     env |-> env]
\* &object.Builtin{Fn: BUILTIN[name].Fn}
Builtin(name) == [type |-> "BUILTIN", bname |-> name]

\* Largest value of the seed of the run time's map iteration.
MaxSeed == 1

\* Nothing allocated yet.  envs are the Environments that evaluation
\* creates; seed is the state of the run time's random number generator,
\* which picks where a range over a map starts.
EmptyHeap ==
    [bufs |-> <<>>, arrays |-> <<>>, hashes |-> <<>>,
     envs |-> <<NewEnvironment>>, seed |-> 0]

\* The nil slice of &object.Array{}.
NilSlice == [buf |-> 0, off |-> 0, len |-> 0]

Cap(h, s) == IF s.buf = 0 THEN 0 ELSE Len(h.bufs[s.buf]) - s.off

\* arr.Elements as a sequence.
Elements(h, k) ==
    LET s == h.arrays[k] IN [i \in 1..s.len |-> h.bufs[s.buf][s.off + i]]

\* A builtin's outcome: the object it returns and the heap it leaves.
Out(o, h) == [obj |-> o, heap |-> h]

\* &object.Array{Elements: s}
NewArrayOf(h, s) ==
    Out(ArrayObj(Len(h.arrays) + 1), [h EXCEPT !.arrays = Append(@, s)])

\* make([]object.Object, n, n) filled with elems, in a new Array object.
MakeArray(h, elems) ==
    LET h2 == [h EXCEPT !.bufs = Append(@, elems)] IN
    NewArrayOf(h2, [buf |-> Len(h2.bufs), off |-> 0, len |-> Len(elems)])

\* append(s, xs...): in place when the capacity allows, else into a new
\* backing array of twice the capacity (or the length needed, if larger).
AppendSlice(h, s, xs) ==
    LET need == s.len + Len(xs)
        old == [i \in 1..s.len |-> h.bufs[s.buf][s.off + i]]
    IN
    IF xs = <<>> THEN [heap |-> h, slice |-> s]
    ELSE IF need <= Cap(h, s)
    THEN [heap |-> [h EXCEPT !.bufs[s.buf] =
                        [i \in 1..Len(@) |->
                            IF i > s.off + s.len /\ i <= s.off + need
                            THEN xs[i - s.off - s.len] ELSE @[i]]],
          slice |-> [s EXCEPT !.len = need]]
    ELSE LET cap == IF 2 * Cap(h, s) > need THEN 2 * Cap(h, s) ELSE need
             buf == [i \in 1..cap |->
                        IF i <= s.len THEN old[i]
                        ELSE IF i <= need THEN xs[i - s.len] ELSE GoNil]
         IN [heap |-> [h EXCEPT !.bufs = Append(@, buf)],
             slice |-> [buf |-> Len(h.bufs) + 1, off |-> 0, len |-> need]]

Hashable(o) == o.type \in {"INTEGER", "BOOLEAN", "STRING"}

\* HashKey(): the type and a number made from the value (for a String its
\* 64-bit FNV-1a hash, which the character sequence stands for here).
HashKey(o) ==
    CASE o.type = "INTEGER" -> [type |-> "INTEGER", ikey |-> o.value]
      [] o.type = "BOOLEAN" -> [type |-> "BOOLEAN", bkey |-> o.bvalue]
      [] o.type = "STRING" -> [type |-> "STRING", skey |-> o.svalue]

HashPair(k, v) == [key |-> k, value |-> v]

\* hash.Pairs[key] = pair
PutPair(pairs, key, pair) ==
    [x \in DOMAIN pairs \cup {key} |-> IF x = key THEN pair ELSE pairs[x]]

(***************************************************************************)
(* Builtin functions (src/unnamed/part_018).  A builtin takes its          *)
(* arguments and the heap and yields Out(object, heap); an index out of    *)
(* range or a slice out of bounds is a panic.  In the messages ' stands    *)
(* for the back quote of the source.                                       *)
(***************************************************************************)
checkForArrayErrors(functionName, argumentsExpected, args) ==
    IF Len(args) > argumentsExpected
    THEN newError(<<"wrong number of arguments passed to ", functionName,
                    ". Got ", ToString(Len(args)), " wanted ",
                    ToString(argumentsExpected)>>)
    ELSE IF Len(args) = 0 THEN Panic("index out of range [0] with length 0")
    ELSE IF args[1].type # "ARRAY"
    THEN newError(<<"argument to '", functionName, "' must be ARRAY, got ",
                    args[1].type>>)
    ELSE NULL

checkForHashErrors(functionName, argumentsExpected, args) ==
    IF Len(args) < argumentsExpected
    THEN newError(<<"wrong number of arguments, got ", ToString(Len(args)),
                    " wanted ", ToString(argumentsExpected)>>)
    ELSE IF Len(args) = 0 THEN Panic("index out of range [0] with length 0")
    ELSE IF args[1].type # "HASH"
    THEN newError(<<"argument to '", functionName, "' must be HASH, got ",
                    args[1].type>>)
    ELSE NULL

__len__(args, h) ==
    IF Len(args) # 1
    THEN Out(newError(<<"wrong number of arguments. got ", ToString(Len(args)),
                        ", wanted 1">>), h)
    ELSE CASE args[1].type = "ARRAY" -> Out(Integer(h.arrays[args[1].ref].len), h)
           [] args[1].type = "STRING" -> Out(Integer(Len(args[1].svalue)), h)
           [] OTHER -> Out(newError(<<"argument to 'len' not supported, got ",
                                      args[1].type>>), h)

__first__(args, h) ==
    LET err == checkForArrayErrors("first", 1, args) IN
    IF err # NULL THEN Out(err, h)
    ELSE LET elems == Elements(h, args[1].ref) IN
         IF Len(elems) > 0 THEN Out(elems[1], h) ELSE Out(NULL, h)

__last__(args, h) ==
    LET err == checkForArrayErrors("last", 1, args) IN
    IF err # NULL THEN Out(err, h)
    ELSE LET elems == Elements(h, args[1].ref) IN
         IF Len(elems) > 0 THEN Out(elems[Len(elems)], h) ELSE Out(NULL, h)

__rest__(args, h) ==
    LET err == checkForArrayErrors("rest", 1, args) IN
    IF err # NULL THEN Out(err, h)
    ELSE LET elems == Elements(h, args[1].ref) IN
         IF Len(elems) > 0 THEN MakeArray(h, Tail(elems)) ELSE Out(NULL, h)

__push__(args, h) ==
    LET err == checkForArrayErrors("push", 2, args) IN
    IF err # NULL THEN Out(err, h)
    ELSE IF Len(args) < 2
    THEN Out(Panic("index out of range [1] with length 1"), h)
    ELSE MakeArray(h, Append(Elements(h, args[1].ref), args[2]))

__puts__(args, h) == Out(NULL, h)

\* The loop of __delete__ taking the entries out of hash.Pairs.
RECURSIVE deleteLoopRemoving(_, _, _, _)
deleteLoopRemoving(args, i, k, h) ==
    IF i > Len(args) THEN Out(args[1], h)
    ELSE IF ~Hashable(args[i])
    THEN Out(newError(<<"Unusable value as hash key: ", args[i].type>>), h)
    ELSE deleteLoopRemoving(args, i + 1, k,
            [h EXCEPT !.hashes[k] =
                [x \in DOMAIN @ \ {HashKey(args[i])} |-> @[x]]])

\* The loop of __delete__ over args[1:].
RECURSIVE deleteLoop(_, _, _, _)
deleteLoop(args, i, k, h) ==
    IF i > Len(args) THEN Out(args[1], h)
    ELSE IF ~Hashable(args[i])
    THEN Out(newError(<<"Unusable value as hash key: ", args[i].type>>), h)
    ELSE deleteLoop(args, i + 1, k,
            [h EXCEPT !.hashes[k] = PutPair(@, HashKey(args[i]),
                                            HashPair(NULL, NULL))])

__delete__(args, h) ==
    LET err == checkForHashErrors("delete", 2, args) IN
    IF err # NULL THEN Out(err, h)
    ELSE deleteLoop(args, 2, args[1].href, h)

\* The loop of __valuesAt__ over args[1:]; k is the Array being filled.
RECURSIVE valuesAtLoop(_, _, _, _)
valuesAtLoop(args, i, k, h) ==
    IF i > Len(args) THEN Out(ArrayObj(k), h)
    ELSE IF ~Hashable(args[i])
    THEN Out(newError(<<"Unusable value as hash key: ", args[i].type>>), h)
    ELSE LET pairs == h.hashes[args[1].href]
             key == HashKey(args[i])
             val == IF key \in DOMAIN pairs THEN pairs[key].value ELSE GoNil
             a == AppendSlice(h, h.arrays[k], <<val>>)
         IN valuesAtLoop(args, i + 1, k, [a.heap EXCEPT !.arrays[k] = a.slice])

__valuesAt__(args, h) ==
    LET err == checkForHashErrors("valuesAt", 2, args) IN
    IF err # NULL THEN Out(err, h)
    ELSE LET arr == NewArrayOf(h, NilSlice) IN
         valuesAtLoop(args, 2, arr.obj.ref, arr.heap)

\* The loop of __toArray__ over hash.Pairs, in the order the map's
\* iteration happens to take.
RECURSIVE toArrayLoop(_, _, _, _, _)
toArrayLoop(pairs, order, i, k, h) ==
    IF i > Len(order) THEN Out(ArrayObj(k), h)
    ELSE LET pair == pairs[order[i]]
             a == AppendSlice(h, h.arrays[k], <<pair.key, pair.value>>)
         IN toArrayLoop(pairs, order, i + 1, k,
                        [a.heap EXCEPT !.arrays[k] = a.slice])

__toArray__(args, h, order) ==
    LET err == checkForHashErrors("toArray", 1, args) IN
    IF err # NULL THEN Out(err, h)
    ELSE LET arr == NewArrayOf(h, NilSlice) IN
         toArrayLoop(h.hashes[args[1].href], order, 1, arr.obj.ref, arr.heap)

RECURSIVE __dig__(_, _)
__dig__(args, h) ==
    LET err == checkForHashErrors("dig", 2, args) IN
    IF err # NULL THEN Out(err, h)
    ELSE IF ~Hashable(args[2])
    THEN Out(newError(<<"Unusable value as hash key: ", args[2].type>>), h)
    ELSE LET pairs == h.hashes[args[1].href]
             key == HashKey(args[2])
         IN IF key \in DOMAIN pairs
            THEN IF Len(args) = 2 THEN Out(pairs[key].value, h)
                 ELSE __dig__(<<pairs[key].value>> \o SubSeq(args, 3, Len(args)), h)
            ELSE Out(GoNil, h)

RECURSIVE Evaluate(_, _, _, _)

\* Eval(node, env) and the call of a function object, as the builtins
\* and the evaluator's own functions reach them.
callEval(node, e, h) == Evaluate("Eval", node, e, h)
callApplyFunction(fn, args, h) == Evaluate("applyFunction", fn, args, h)

\* The loop of applyFunction over the elements of the Array: the results
\* of calling function on each, whatever they are.
RECURSIVE applyFunctionLoop(_, _, _, _, _)
applyFunctionLoop(function, elems, i, results, h) ==
    IF i > Len(elems) THEN MakeArray(h, results)
    ELSE LET r == callApplyFunction(function, <<elems[i]>>, h) IN
         IF IsPanic(r.obj) THEN r
         ELSE applyFunctionLoop(function, elems, i + 1,
                                Append(results, r.obj), r.heap)

\* applyFunction(function, args) of the builtins: the per-element results
\* of calling function on the elements of args[0], in a new Array.
applyFunction(function, args, h) ==
    applyFunctionLoop(function, Elements(h, args[1].ref), 1, <<>>, h)

\* __map__ storing the results in the Array it was given.
__map__InPlace(args, h) ==
    LET err == checkForArrayErrors("map", 2, args) IN
    IF err # NULL THEN Out(err, h)
    ELSE IF Len(args) < 2
    THEN Out(Panic("index out of range [1] with length 1"), h)
    ELSE IF args[2].type # "FUNCTION"
    THEN Out(newError(<<"second arguments to 'map' should be a function, got ",
                        "object.ObjectType", " instead">>), h)
    ELSE LET r == applyFunction(args[2], SubSeq(args, 1, 1), h) IN
         IF r.obj.type # "ARRAY" THEN r
         ELSE Out(args[1], [r.heap EXCEPT !.arrays[args[1].ref] =
                                              r.heap.arrays[r.obj.ref]])

__map__(args, h) ==
    LET err == checkForArrayErrors("map", 2, args) IN
    IF err # NULL THEN Out(err, h)
    ELSE IF Len(args) < 2
    THEN Out(Panic("index out of range [1] with length 1"), h)
    ELSE IF args[2].type # "FUNCTION"
    THEN Out(newError(<<"second arguments to 'map' should be a function, got ",
                        "object.ObjectType", " instead">>), h)
    ELSE applyFunction(args[2], SubSeq(args, 1, 1), h)

\* __pop__ taking the last element off a copy of the Array.
__pop__OfCopy(args, h) ==
    LET err == checkForArrayErrors("pop", 1, args) IN
    IF err # NULL THEN Out(err, h)
    ELSE LET s == h.arrays[args[1].ref] IN
         IF s.len = 0 THEN Out(Panic("index out of range [-1]"), h)
         ELSE Out(h.bufs[s.buf][s.off + s.len],
                  NewArrayOf(h, [s EXCEPT !.len = s.len - 1]).heap)

__pop__(args, h) ==
    LET err == checkForArrayErrors("pop", 1, args) IN
    IF err # NULL THEN Out(err, h)
    ELSE LET k == args[1].ref
             s == h.arrays[k]
         IN IF s.len = 0 THEN Out(Panic("index out of range [-1]"), h)
            ELSE Out(h.bufs[s.buf][s.off + s.len],
                     [h EXCEPT !.arrays[k].len = s.len - 1])

__shift__(args, h) ==
    LET err == checkForArrayErrors("shift", 1, args) IN
    IF err # NULL THEN Out(err, h)
    ELSE LET k == args[1].ref
             s == h.arrays[k]
         IN IF s.len = 0
            THEN Out(Panic("index out of range [0] with length 0"), h)
            ELSE Out(h.bufs[s.buf][s.off + 1],
                     [h EXCEPT !.arrays[k] =
                        [buf |-> s.buf, off |-> s.off + 1, len |-> s.len - 1]])

\* The first of args[1:] that is no Integer or is negative, as the loop of
\* __slice__ finds it; 0 if there is none.
FirstBadIndex(args) ==
    LET bad == {i \in 2..Len(args) :
                    IF args[i].type # "INTEGER" THEN TRUE
                    ELSE args[i].value < 0}
    IN IF bad = {} THEN 0 ELSE CHOOSE i \in bad : \A j \in bad : i <= j

__slice__(args, h) ==
    LET err == checkForArrayErrors("slice", 3, args) IN
    IF err # NULL THEN Out(err, h)
    ELSE LET s == h.arrays[args[1].ref]
             arrCopy == NewArrayOf(h, s)
             bad == FirstBadIndex(args)
         IN
         IF Len(args) = 1 THEN arrCopy
         ELSE IF bad # 0
         THEN IF args[bad].type # "INTEGER"
              THEN Out(newError(<<"expected an integer, got a type of ",
                                  "object.ObjectType", " instead">>),
                       arrCopy.heap)
              ELSE Out(newError(<<"Negative indexes not supported (yet), recieved value of ",
                                  ToString(args[bad].value)>>), arrCopy.heap)
         ELSE LET firstIdx == args[2].value IN
              IF Len(args) = 3
              THEN LET secondIdx == args[3].value IN
                   IF firstIdx > secondIdx \/ secondIdx > Cap(h, s)
                   THEN Out(Panic("slice bounds out of range"), arrCopy.heap)
                   ELSE Out(arrCopy.obj,
                            [arrCopy.heap EXCEPT !.arrays[arrCopy.obj.ref] =
                                [buf |-> s.buf, off |-> s.off + firstIdx,
                                 len |-> secondIdx - firstIdx]])
              ELSE IF firstIdx > s.len
                   THEN Out(Panic("slice bounds out of range"), arrCopy.heap)
                   ELSE Out(arrCopy.obj,
                            [arrCopy.heap EXCEPT !.arrays[arrCopy.obj.ref] =
                                [buf |-> s.buf, off |-> s.off + firstIdx,
                                 len |-> s.len - firstIdx]])

BuiltinNames ==
    {"len", "first", "last", "rest", "push", "puts", "delete", "valuesAt",
     "toArray", "dig", "map", "pop", "shift", "slice"}

\* BUILTIN[name].Fn(args...)
BUILTIN(name, args, h, order) ==
    CASE name = "len" -> __len__(args, h)
      [] name = "first" -> __first__(args, h)
      [] name = "last" -> __last__(args, h)
      [] name = "rest" -> __rest__(args, h)
      [] name = "push" -> __push__(args, h)
      [] name = "puts" -> __puts__(args, h)
      [] name = "delete" -> __delete__(args, h)
      [] name = "valuesAt" -> __valuesAt__(args, h)
      [] name = "toArray" -> __toArray__(args, h, order)
      [] name = "dig" -> __dig__(args, h)
      [] name = "map" -> __map__(args, h)
      [] name = "pop" -> __pop__(args, h)
      [] name = "shift" -> __shift__(args, h)
      [] name = "slice" -> __slice__(args, h)

\* Index assignment arr[index] = val on an Array: an in-range Integer index
\* is required, the element is replaced in place and val is the value.
evalArrayIndexAssignment(array, index, val, h) ==
    LET s == h.arrays[array.ref] IN
    IF index.type # "INTEGER"
    THEN Out(newError(<<"index is not an integer: ", index.type>>), h)
    ELSE IF index.value < 0 \/ index.value >= s.len
    THEN Out(newError(<<"index out of range: ", ToString(index.value)>>), h)
    ELSE Out(val, [h EXCEPT !.bufs[s.buf][s.off + index.value + 1] = val])

(***************************************************************************)
(* Eval with an Environment.  Evaluate(fn, a, b, h) is the one way in      *)
(* which the functions of the evaluator call each other: "Eval" on a node  *)
(* a in Environment b, "applyFunction" of the object a to the arguments b. *)
(* The outcome is Out(object, heap).                                       *)
(***************************************************************************)
IdentName(ident) == ident.name[1]

\* A range over a Go map of n entries starts at an entry the run time
\* picks and goes round: the order of the entries 1..n for a seed.
MapOrder(n, seed) == [i \in 1..n |-> ((i - 1 + seed) % n) + 1]

NextSeed(h) == [h EXCEPT !.seed = (@ + 1) % (MaxSeed + 1)]

\* The order of a range over hash.Pairs for the seed of h.
PairsOrder(pairs, h) ==
    LET keys == DOMAIN pairs
        n == Cardinality(keys)
        some == CHOOSE s \in [1..n -> keys] :
                    \A i, j \in 1..n : i # j => s[i] # s[j]
    IN [i \in 1..n |-> some[MapOrder(n, h.seed)[i]]]

unwrapReturnValue(obj) ==
    IF obj.type = "RETURN_VALUE" THEN obj.wrapped ELSE obj

\* evalExpressions from expression i on: the values so far, or the one
\* Error (or abort) that ended it.
RECURSIVE evalExpressions(_, _, _, _, _)
evalExpressions(exps, i, vals, e, h) ==
    IF i > Len(exps) THEN [list |-> vals, heap |-> h]
    ELSE LET r == callEval(exps[i], e, h) IN
         IF Stops(r.obj) THEN [list |-> <<r.obj>>, heap |-> r.heap]
         ELSE evalExpressions(exps, i + 1, Append(vals, r.obj), e, r.heap)

ArgumentsStop(args) == Len(args.list) = 1 /\ Stops(args.list[1])

\* extendFunctionEnv: parameter i is bound to argument i in Environment k.
RECURSIVE extendFunctionEnv(_, _, _, _, _)
extendFunctionEnv(es, k, parameters, args, i) ==
    IF i > Len(parameters) \/ i > Len(args) THEN es
    ELSE extendFunctionEnv(Set(es, k, IdentName(parameters[i]), args[i]),
                           k, parameters, args, i + 1)

\* A call of the object fn with evaluated arguments.
evalCall(fn, args, h) ==
    CASE fn.type = "FUNCTION" ->
            LET k == Len(h.envs) + 1
                es == Append(h.envs, NewEnclosedEnvironment(fn.env))
                h2 == [h EXCEPT !.envs =
                          extendFunctionEnv(es, k, fn.parameters, args, 1)]
                r == callEval(fn.body, k, h2)
            IN Out(unwrapReturnValue(r.obj), r.heap)
      [] fn.type = "BUILTIN" ->
            IF fn.bname = "toArray" /\ Len(args) > 0 /\ args[1].type = "HASH"
            THEN BUILTIN(fn.bname, args, NextSeed(h),
                         PairsOrder(h.hashes[args[1].href], h))
            ELSE BUILTIN(fn.bname, args, h, <<>>)
      [] OTHER -> Out(newError(<<"not a function: ", fn.type>>), h)

evalIdentifier(node, e, h) ==
    LET val == Get(h.envs, e, IdentName(node)) IN
    IF val.ok THEN val.obj
    ELSE IF IdentName(node) \in BuiltinNames THEN Builtin(IdentName(node))
    ELSE newError(<<"identifier not found: ", IdentName(node)>>)

\* evalBlockStatement from statement i on; last is the value so far.
RECURSIVE evalStatements(_, _, _, _, _)
evalStatements(stmts, i, last, e, h) ==
    IF i > Len(stmts) THEN Out(last, h)
    ELSE LET r == callEval(stmts[i], e, h) IN
         IF IsPanic(r.obj) THEN r
         ELSE IF r.obj.type \in {"RETURN_VALUE", "ERROR"} THEN r
         ELSE evalStatements(stmts, i + 1, r.obj, e, r.heap)

evalIfIn(node, e, h) ==
    LET c == callEval(node.condition, e, h) IN
    IF Stops(c.obj) THEN c
    ELSE IF isTruthy(c.obj) THEN callEval(node.consequence, e, c.heap)
    ELSE IF ~IsNilNode(node.alternative)
    THEN callEval(node.alternative, e, c.heap)
    ELSE Out(NULL, c.heap)

evalInfixIn(node, e, h) ==
    LET l == callEval(node.left, e, h) IN
    IF Stops(l.obj) THEN l ELSE
    LET r == callEval(node.right, e, l.heap) IN
    IF Stops(r.obj) THEN r
    ELSE Out(evalInfixExpression(node.operator, l.obj, r.obj), r.heap)

evalLetStatement(node, e, h) ==
    LET val == callEval(node.value, e, h) IN
    IF Stops(val.obj) THEN val
    ELSE Out(GoNil, [val.heap EXCEPT !.envs =
                        Set(@, e, IdentName(node.name), val.obj)])

evalAssignmentIn(node, e, h) ==
    LET val == callEval(node.value, e, h) IN
    IF Stops(val.obj) THEN val
    ELSE LET r == evalAssignmentExpression(val.heap.envs, e,
                                           IdentName(node.name), val.obj)
         IN Out(r.obj, [val.heap EXCEPT !.envs = r.envs])

evalCallExpression(node, e, h) ==
    LET function == callEval(node.function, e, h) IN
    IF Stops(function.obj) THEN function ELSE
    LET args == evalExpressions(node.arguments, 1, <<>>, e, function.heap) IN
    IF ArgumentsStop(args) THEN Out(args.list[1], args.heap)
    ELSE callApplyFunction(function.obj, args.list, args.heap)

\* recv.method(args): the receiver is put in front of the arguments and
\* the call is made as a normal call.
evalInternalFunctionCall(node, e, h) ==
    LET caller == callEval(node.caller, e, h) IN
    IF Stops(caller.obj) THEN caller ELSE
    LET function == callEval(node.function, e, caller.heap) IN
    IF Stops(function.obj) THEN function ELSE
    LET args == evalExpressions(node.arguments, 1, <<>>, e, function.heap) IN
    IF ArgumentsStop(args) THEN Out(args.list[1], args.heap)
    ELSE callApplyFunction(function.obj, <<caller.obj>> \o args.list,
                           args.heap)

evalArrayLiteral(node, e, h) ==
    LET elements == evalExpressions(node.elements, 1, <<>>, e, h) IN
    IF ArgumentsStop(elements) THEN Out(elements.list[1], elements.heap)
    ELSE MakeArray(elements.heap, elements.list)

\* &object.Hash{Pairs: pairs}
NewHashOf(h, pairs) ==
    Out(HashObj(Len(h.hashes) + 1), [h EXCEPT !.hashes = Append(@, pairs)])

\* The loop of evalHashLiteral over node.Pairs, a Go map keyed by the key
\* expressions' nodes, in the order the range takes.
RECURSIVE evalHashPairs(_, _, _, _, _, _)
evalHashPairs(nodePairs, order, i, pairs, e, h) ==
    IF i > Len(order) THEN NewHashOf(h, pairs)
    ELSE LET key == callEval(nodePairs[order[i]][1], e, h) IN
         IF Stops(key.obj) THEN key
         ELSE IF ~Hashable(key.obj)
         THEN Out(newError(<<"unusable as hash key: ", key.obj.type>>),
                  key.heap)
         ELSE LET value == callEval(nodePairs[order[i]][2], e, key.heap) IN
              IF Stops(value.obj) THEN value
              ELSE evalHashPairs(nodePairs, order, i + 1,
                        PutPair(pairs, HashKey(key.obj),
                                HashPair(key.obj, value.obj)),
                        e, value.heap)

evalHashLiteral(node, e, h) ==
    evalHashPairs(node.pairs, MapOrder(Len(node.pairs), h.seed), 1, <<>>,
                  e, NextSeed(h))

evalIndexExpression(left, index, h) ==
    CASE left.type = "ARRAY" /\ index.type = "INTEGER" ->
            LET elems == Elements(h, left.ref) IN
            IF index.value < 0 \/ index.value >= Len(elems) THEN NULL
            ELSE elems[index.value + 1]
      [] left.type = "HASH" ->
            IF ~Hashable(index)
            THEN newError(<<"unusable as hash key: ", index.type>>)
            ELSE IF HashKey(index) \in DOMAIN h.hashes[left.href]
            THEN h.hashes[left.href][HashKey(index)].value
            ELSE NULL
      [] OTHER -> newError(<<"index operator not supported: ", left.type>>)

evalIndexIn(node, e, h) ==
    LET left == callEval(node.left, e, h) IN
    IF Stops(left.obj) THEN left ELSE
    LET index == callEval(node.index, e, left.heap) IN
    IF Stops(index.obj) THEN index
    ELSE Out(evalIndexExpression(left.obj, index.obj, index.heap), index.heap)

\* Index assignment h[index] = val on a Hash: the pair is stored in place.
evalHashIndexAssignment(hash, index, val, h) ==
    IF ~Hashable(index)
    THEN Out(newError(<<"unusable as hash key: ", index.type>>), h)
    ELSE Out(val, [h EXCEPT !.hashes[hash.href] =
                      PutPair(@, HashKey(index), HashPair(index, val))])

evalIndexAssignment(node, e, h) ==
    LET left == callEval(node.left, e, h) IN
    IF Stops(left.obj) THEN left ELSE
    LET index == callEval(node.index, e, left.heap) IN
    IF Stops(index.obj) THEN index ELSE
    LET val == callEval(node.value, e, index.heap) IN
    IF Stops(val.obj) THEN val
    ELSE CASE left.obj.type = "ARRAY" ->
                evalArrayIndexAssignment(left.obj, index.obj, val.obj, val.heap)
           [] left.obj.type = "HASH" ->
                evalHashIndexAssignment(left.obj, index.obj, val.obj, val.heap)
           [] OTHER ->
                Out(newError(<<"index operator not supported: ",
                               left.obj.type>>), val.heap)

\* The loop of a for statement from the check of the condition on; last
\* is the value of the body's latest evaluation.
RECURSIVE evalForLoopFrom(_, _, _, _)
evalForLoopFrom(node, last, e, h) ==
    LET c == callEval(node.loopCondition, e, h) IN
    IF Stops(c.obj) THEN c
    ELSE IF c.obj.type # "BOOLEAN"
    THEN Out(newError(<<"loop condition is not a boolean: ", c.obj.type>>),
             c.heap)
    ELSE IF c.obj = FALSE_OBJ THEN Out(last, c.heap)
    ELSE LET body == callEval(node.loopBlock, e, c.heap) IN
         IF IsPanic(body.obj) THEN body
         ELSE IF body.obj.type \in {"RETURN_VALUE", "ERROR"} THEN body
         ELSE LET u == callEval(node.counterUpdate, e, body.heap) IN
              IF Stops(u.obj) THEN u
              ELSE evalForLoopFrom(node, body.obj, e,
                      [u.heap EXCEPT !.envs =
                          Set(@, e, IdentName(node.counterVar.name), u.obj)])

\* Eval of *ast.ForLoopStatement: the initializer once, then the loop.
evalForLoopStatement(node, e, h) ==
    LET init == callEval(node.counterVar, e, h) IN
    IF Stops(init.obj) THEN init
    ELSE evalForLoopFrom(node, NULL, e, init.heap)

EvalIn(node, e, h) ==
    CASE node.node = "ExpressionStatement" -> callEval(node.expression, e, h)
      [] node.node = "ForLoopStatement" -> evalForLoopStatement(node, e, h)
      [] node.node = "IntegerLiteral" -> Out(Integer(node.value), h)
      [] node.node = "Boolean" ->
            Out(nativeBoolToBooleanObject(node.bvalue), h)
      [] node.node = "StringLiteral" -> Out(String(node.svalue), h)
      [] node.node = "Identifier" -> Out(evalIdentifier(node, e, h), h)
      [] node.node = "PrefixExpression" ->
            LET r == callEval(node.right, e, h) IN
            IF Stops(r.obj) THEN r
            ELSE Out(evalPrefixExpression(node.operator, r.obj), r.heap)
      [] node.node = "InfixExpression" -> evalInfixIn(node, e, h)
      [] node.node = "BlockStatement" ->
            evalStatements(node.statements, 1, GoNil, e, h)
      [] node.node = "IfExpression" -> evalIfIn(node, e, h)
      [] node.node = "ReturnStatement" ->
            LET v == callEval(node.returnValue, e, h) IN
            IF Stops(v.obj) THEN v ELSE Out(ReturnValue(v.obj), v.heap)
      [] node.node = "LetStatement" -> evalLetStatement(node, e, h)
      [] node.node = "FunctionLiteral" ->
            Out(Function(node.parameters, node.body, e), h)
      [] node.node = "CallExpression" -> evalCallExpression(node, e, h)
      [] node.node = "InternalFunctionCall" ->
            evalInternalFunctionCall(node, e, h)
      [] node.node = "ArrayLiteral" -> evalArrayLiteral(node, e, h)
      [] node.node = "HashLiteral" -> evalHashLiteral(node, e, h)
      [] node.node = "IndexExpression" -> evalIndexIn(node, e, h)
      [] node.node = "IndexAssignment" -> evalIndexAssignment(node, e, h)
      [] node.node = "AssignmentExpression" -> evalAssignmentIn(node, e, h)
      [] OTHER -> Out(GoNil, h)

Evaluate(fn, a, b, h) ==
    CASE fn = "Eval" -> EvalIn(a, b, h)
      [] fn = "applyFunction" -> evalCall(a, b, h)

(***************************************************************************)
(* Source texts, as the token streams the lexer produces for them          *)
(***************************************************************************)
\* Longest statement list of a generated block or program.
MaxStmts == 3

I(d) == <<IntTok(d)>>
S(t) == <<Sym(t)>>

IfOpen(cond) == S("IF") \o S("(") \o cond \o S(")") \o S("{")

\* a op1 b op2 c over integer literals
ChainOperands == {<<"1">>, <<"2">>, <<"3">>, <<"1", "0">>}

Chain(a, op1, b, op2, c) == I(a) \o S(op1) \o I(b) \o S(op2) \o I(c)

ChainSources ==
    {Chain(a, op1, b, op2, c) :
        a \in ChainOperands, b \in ChainOperands, c \in ChainOperands,
        op1 \in BinaryOps, op2 \in BinaryOps}

\* Operand phrases, one for every kind of value Eval can return.
NullIf == IfOpen(S("FALSE")) \o I(<<"1">>) \o S("}")
ReturnIf == IfOpen(S("TRUE")) \o S("RETURN") \o I(<<"1">>) \o S("}")
EmptyIf == IfOpen(S("TRUE")) \o S("}")
MinusTrue == S("-") \o S("TRUE")
OnePlusTrue == S("(") \o I(<<"1">>) \o S("+") \o S("TRUE") \o S(")")

IntPhrases ==
    {I(<<"0">>), I(<<"2">>), I(<<"7">>), S("-") \o I(<<"7">>),
     S("-") \o I(<<"1">>)}

ErrorPhrases == {MinusTrue, OnePlusTrue}

OperandPhrases ==
    IntPhrases \cup {S("TRUE"), S("FALSE"), NullIf, ReturnIf, EmptyIf}
        \cup ErrorPhrases

PairSources ==
    {x \o S(op) \o y : x \in OperandPhrases, y \in OperandPhrases,
                       op \in BinaryOps}

PrefixSources ==
    {S(op) \o x : op \in {"-", "!", "RETURN"}, x \in OperandPhrases}

\* Statement lists: a value, a return, a run-time error.
SimpleStmts ==
    {I(<<"9">>) \o S(";"),
     S("RETURN") \o I(<<"2">>) \o S("*") \o I(<<"5">>) \o S(";"),
     MinusTrue \o S(";")}

RECURSIVE StmtLists(_)
StmtLists(n) ==
    IF n = 0 THEN {<<>>}
    ELSE LET shorter == StmtLists(n - 1) IN
         shorter \cup {l \o st : l \in shorter, st \in SimpleStmts}

IfBlock(body) ==
    IfOpen(I(<<"1", "0">>) \o S(">") \o I(<<"1">>)) \o body \o S("}") \o S(";")

OptStmt == SimpleStmts \cup {<<>>}

BlockSources ==
    LET lists == StmtLists(MaxStmts) IN
    lists
    \cup {IfBlock(b) \o st : b \in lists, st \in OptStmt}
    \cup {IfBlock(IfBlock(b) \o s1) \o s2 :
            b \in lists, s1 \in OptStmt, s2 \in OptStmt}

\* A statement the parser rejects (the caller then does not evaluate).
BadSources == {S("LET") \o I(<<"5">>) \o S(";") \o x : x \in IntPhrases}

\* Statements with one syntax error each, up to their semicolon:
\* let 5;  let x 5;  let = 5;  1 + ;  (1;  ! ;  x.(1);  1 = 2;  1.pop();
Malformed ==
    {S("LET") \o I(<<"5">>) \o S(";"),
     S("LET") \o <<IdentTok("x")>> \o I(<<"5">>) \o S(";"),
     S("LET") \o S("=") \o I(<<"5">>) \o S(";"),
     I(<<"1">>) \o S("+") \o S(";"),
     S("(") \o I(<<"1">>) \o S(";"),
     S("!") \o S(";"),
     <<IdentTok("x")>> \o S(".") \o S("(") \o I(<<"1">>) \o S(")") \o S(";"),
     I(<<"1">>) \o S("=") \o I(<<"2">>) \o S(";"),
     I(<<"1">>) \o S(".") \o <<IdentTok("pop")>> \o S("(") \o S(")")
        \o S(";")}

\* let y = 7;  9;  return 2 * 5;
WellFormed ==
    {S("LET") \o <<IdentTok("y")>> \o S("=") \o I(<<"7">>) \o S(";")}
        \cup {st \in SimpleStmts : st # MinusTrue \o S(";")}

\* One or two malformed statements, then a well-formed one.
RecoverySources ==
    {m \o g : m \in Malformed, g \in WellFormed}
    \cup {m1 \o m2 \o g : m1 \in Malformed, m2 \in Malformed,
                          g \in WellFormed}

\* Integer literals: 08, 007, 010, 42, 9223372036854775808, twenty nines,
\* and each of them after let x =.
IntegerLiterals ==
    {<<"0", "8">>, <<"0", "0", "7">>, <<"0", "1", "0">>, <<"4", "2">>,
     [MaxInt64Digits EXCEPT ![19] = "8"],
     [i \in 1..20 |-> "9"]}

IntegerSources ==
    {I(d) \o S(";") : d \in IntegerLiterals}
    \cup {S("LET") \o <<IdentTok("x")>> \o S("=") \o I(d) \o S(";") :
            d \in IntegerLiterals}

\* return;   return   return 5;   return 5   and each of them as the only
\* statement of a block: if (true) { return; } ...
ReturnForms ==
    {S("RETURN") \o S(";"), S("RETURN"), S("RETURN") \o I(<<"5">>) \o S(";"),
     S("RETURN") \o I(<<"5">>)}

ReturnSources ==
    ReturnForms \cup {IfOpen(S("TRUE")) \o r \o S("}") : r \in ReturnForms}

\* S1; S2; for S1 one of  x = 1   1   x   1 + 1  and S2 one of  (2)  [2]  -2
FirstStatements ==
    {<<IdentTok("x")>> \o S("=") \o I(<<"1">>), I(<<"1">>), <<IdentTok("x")>>,
     I(<<"1">>) \o S("+") \o I(<<"1">>)}

SecondStatements ==
    {S("(") \o I(<<"2">>) \o S(")"), S("[") \o I(<<"2">>) \o S("]"),
     S("-") \o I(<<"2">>)}

SemicolonSources ==
    {s1 \o S(";") \o s2 \o S(";") :
        s1 \in FirstStatements, s2 \in SecondStatements}

\* fn(P) { };   fn(x, P) { };   x.P();   for P one of  y  1  let  +  true
NameTokens ==
    {IdentTok("y"), IntTok(<<"1">>), Sym("LET"), Sym("+"), Sym("TRUE")}

FunctionWith(params) ==
    S("FUNCTION") \o S("(") \o params \o S(")") \o S("{") \o S("}") \o S(";")

MethodNamed(t) ==
    <<IdentTok("x")>> \o S(".") \o <<t>> \o S("(") \o S(")") \o S(";")

NameSources ==
    {FunctionWith(<<t>>) : t \in NameTokens}
    \cup {FunctionWith(<<IdentTok("x")>> \o S(",") \o <<t>>) : t \in NameTokens}
    \cup {MethodNamed(t) : t \in NameTokens}

Sources ==
    ChainSources \cup PairSources \cup PrefixSources \cup BlockSources
        \cup BadSources \cup RecoverySources \cup IntegerSources
        \cup ReturnSources \cup SemicolonSources
        \cup NameSources

(***************************************************************************)
(* The interpreter run of EvaluateFile (src/unnamed/part_000): parse the   *)
(* program statement by statement; if the parser recorded no error,        *)
(* evaluate it statement by statement.                                     *)
(***************************************************************************)
\* No object exists yet and no builtin is being called.
ObjectsIdle ==
    /\ heap = EmptyHeap
    /\ envs = <<>>
    /\ argv = <<>>
    /\ trace = <<>>
    /\ opc = "idle"

Init ==
    /\ lexer = New(<<>>)
    /\ input \in Sources
    /\ pos = 1
    /\ errors = <<>>
    /\ statements = <<>>
    /\ ppc = "parse"
    /\ idx = 1
    /\ result = GoNil
    /\ evlog = <<>>
    /\ epc = "idle"
    /\ ObjectsIdle

ParserNow == [toks |-> input, pos |-> pos, errors |-> errors]

\* One iteration of the loop of ParseProgram.
ParseStatement ==
    /\ ppc = "parse"
    /\ ~curTokenIs(ParserNow, "EOF")
    /\ LET s == ParseProgramStep(ParserNow, statements) IN
        /\ statements' = s.stmts
        /\ pos' = s.p.pos
        /\ errors' = s.p.errors
    /\ UNCHANGED <<input, ppc, idx, result, evlog, epc, lexer>>
    /\ UNCHANGED objVars

\* ParseProgram returns; EvaluateFile evaluates only an error-free parse.
ParseReturn ==
    /\ ppc = "parse"
    /\ curTokenIs(ParserNow, "EOF")
    /\ ppc' = "done"
    /\ epc' = IF Len(errors) # 0 THEN "rejected" ELSE "run"
    /\ UNCHANGED <<input, pos, errors, statements, idx, result, evlog, lexer>>
    /\ UNCHANGED objVars

\* One iteration of the loop of evalProgram.
EvalStatement ==
    /\ epc = "run"
    /\ idx <= Len(statements)
    /\ LET s == evalProgramStep(statements[idx]) IN
        /\ result' = s.result
        /\ epc' = s.pc
        /\ evlog' = evlog \o s.log
        /\ idx' = IF s.pc = "run" THEN idx + 1 ELSE idx
    /\ UNCHANGED parserVars
    /\ UNCHANGED objVars

\* evalProgram's loop is over: it returns result.
EvalReturn ==
    /\ epc = "run"
    /\ idx > Len(statements)
    /\ epc' = "done"
    /\ UNCHANGED <<idx, result, evlog>>
    /\ UNCHANGED parserVars
    /\ UNCHANGED objVars

Next == ParseStatement \/ ParseReturn \/ EvalStatement \/ EvalReturn

Spec == Init /\ [][Next]_vars

(***************************************************************************)
(* One call of a builtin with an arbitrary argument list                   *)
(***************************************************************************)
\* No program is being parsed or evaluated.
RunIdle ==
    /\ lexer = New(<<>>)
    /\ input = <<>>
    /\ pos = 1
    /\ errors = <<>>
    /\ statements = <<>>
    /\ ppc = "idle"
    /\ idx = 1
    /\ result = GoNil
    /\ evlog = <<>>
    /\ epc = "idle"

\* Longest argument list.
MaxArgs == 4

\* The heap after let e = []; let a = [1, 2]; let h = {1: 2};
\* let g = {1: h, "k": 1};
BuiltinHeap ==
    [bufs |-> << <<Integer(1), Integer(2)>> >>,
     arrays |-> <<NilSlice, [buf |-> 1, off |-> 0, len |-> 2]>>,
     hashes |-> <<PutPair(<<>>, HashKey(Integer(1)),
                          HashPair(Integer(1), Integer(2))),
                  PutPair(PutPair(<<>>, HashKey(Integer(1)),
                                  HashPair(Integer(1), HashObj(1))),
                          HashKey(String(<<"k">>)),
                          HashPair(String(<<"k">>), Integer(1)))>>,
     envs |-> <<NewEnvironment>>, seed |-> 0]

\* The value of fn(x) { x + 2 } evaluated in the global Environment.
AddTwo ==
    Function(<<[node |-> "Identifier", token |-> "IDENT", name |-> <<"x">>]>>,
             [node |-> "BlockStatement", statements |->
                <<[node |-> "ExpressionStatement", expression |->
                    [node |-> "InfixExpression", operator |-> "+",
                     left |-> [node |-> "Identifier", token |-> "IDENT",
                               name |-> <<"x">>],
                     right |-> [node |-> "IntegerLiteral", value |-> 2]]]>>],
             1)

\* Argument values of every type.
ArgValues ==
    {Integer(0), Integer(1), Integer(-1), String(<<"k">>), NULL,
     ArrayObj(1), ArrayObj(2), HashObj(1), HashObj(2), AddTwo}

ArgLists == UNION {[1..n -> ArgValues] : n \in 0..MaxArgs}

\* The orders in which a range over the Pairs of the Hash args[0] can run.
IterationOrders(args, h) ==
    IF Len(args) = 0 THEN {<<>>}
    ELSE IF args[1].type # "HASH" THEN {<<>>}
    ELSE LET keys == DOMAIN h.hashes[args[1].href] IN
         {o \in [1..Cardinality(keys) -> keys] :
            \A i, j \in 1..Cardinality(keys) : i # j => o[i] # o[j]}

CallEntry(name, args, ret) == [op |-> name, args |-> args, ret |-> ret]

BuiltinInit ==
    /\ RunIdle
    /\ heap = BuiltinHeap
    /\ envs = <<>>
    /\ argv \in ArgLists
    /\ trace = <<>>
    /\ opc = "ready"

\* The evaluator calls BUILTIN[name].Fn(argv...).
CallWithArgv ==
    /\ opc = "ready"
    /\ trace = <<>>
    /\ \E name \in BuiltinNames, order \in IterationOrders(argv, heap) :
        LET r == BUILTIN(name, argv, heap, order) IN
        /\ heap' = r.heap
        /\ trace' = <<CallEntry(name, argv, r.obj)>>
        /\ opc' = IF IsPanic(r.obj) THEN "aborted" ELSE "ready"
    /\ UNCHANGED <<envs, argv>>
    /\ UNCHANGED runVars

BuiltinNext == CallWithArgv

BuiltinSpec == BuiltinInit /\ [][BuiltinNext]_vars

(***************************************************************************)
(* Arrays bound to names in the global Environment: let, calls of the      *)
(* Array builtins and index assignment                                     *)
(***************************************************************************)
\* Most operations of one run.
MaxOps == 3

Names == {"a", "b"}

InitialArrays == {<<Integer(1), Integer(2), Integer(3)>>, <<>>}

\* The state after let a = [1, 2, 3]; or let a = [];
HeapInit ==
    /\ RunIdle
    /\ \E elems \in InitialArrays :
        LET a == MakeArray(EmptyHeap, elems) IN
        /\ heap = a.heap
        /\ envs = Set(<<NewEnvironment>>, 1, "a", a.obj)
    /\ argv = <<>>
    /\ trace = <<>>
    /\ opc = "ready"

BoundValues == {envs[1].store[n] : n \in DOMAIN envs[1].store}

\* The value of the expression statement just evaluated, if it has one.
LastValue ==
    IF trace = <<>> THEN {}
    ELSE IF trace[Len(trace)].op = "let" THEN {}
    ELSE IF IsObject(trace[Len(trace)].ret) THEN {trace[Len(trace)].ret}
    ELSE {}

\* let name = <a bound name, or the call just made>: Environment.Set.
Let ==
    /\ opc = "ready"
    /\ Len(trace) < MaxOps
    /\ \E name \in Names, val \in BoundValues \cup LastValue :
        /\ envs' = Set(envs, 1, name, val)
        /\ trace' = Append(trace, [op |-> "let", name |-> name, val |-> val])
    /\ UNCHANGED <<heap, argv, opc>>
    /\ UNCHANGED runVars

\* The calls x.pop(), x.shift(), x.rest(), x.push(9), x.slice(),
\* x.slice(1) and x.slice(0, 2) on the value x of a bound name.
ArrayCalls ==
    UNION {{[name |-> "pop", args |-> <<x>>],
            [name |-> "shift", args |-> <<x>>],
            [name |-> "rest", args |-> <<x>>],
            [name |-> "push", args |-> <<x, Integer(9)>>],
            [name |-> "slice", args |-> <<x>>],
            [name |-> "slice", args |-> <<x, Integer(1)>>],
            [name |-> "slice", args |-> <<x, Integer(0), Integer(2)>>]} :
           x \in BoundValues}

CallOnBinding ==
    /\ opc = "ready"
    /\ Len(trace) < MaxOps
    /\ \E c \in ArrayCalls :
        LET r == BUILTIN(c.name, c.args, heap, <<>>) IN
        /\ heap' = r.heap
        /\ trace' = Append(trace, CallEntry(c.name, c.args, r.obj))
        /\ opc' = IF IsPanic(r.obj) THEN "aborted" ELSE "ready"
    /\ UNCHANGED <<envs, argv>>
    /\ UNCHANGED runVars

\* x[0] = 9 and x[1] = 9 on an Array x bound to a name.
AssignIndex ==
    /\ opc = "ready"
    /\ Len(trace) < MaxOps
    /\ \E x \in BoundValues, i \in {0, 1} :
        /\ x.type = "ARRAY"
        /\ LET r == evalArrayIndexAssignment(x, Integer(i), Integer(9), heap) IN
            /\ heap' = r.heap
            /\ trace' = Append(trace,
                    CallEntry("assign", <<x, Integer(i), Integer(9)>>, r.obj))
    /\ UNCHANGED <<envs, argv, opc>>
    /\ UNCHANGED runVars

HeapNext == Let \/ CallOnBinding \/ AssignIndex

HeapSpec == HeapInit /\ [][HeapNext]_vars

(***************************************************************************)
(* A chain of Environments: NewEnclosedEnvironment, Set and Get.  trace    *)
(* holds the last operation only.                                          *)
(***************************************************************************)
\* Most Environments of one run.
MaxEnvs == 3

EnvNames == {"x", "y"}

\* The bindings Set is called with: let x = 1, let x = 2, let y = 1.
EnvBindings ==
    {[name |-> "x", val |-> Integer(1)], [name |-> "x", val |-> Integer(2)],
     [name |-> "y", val |-> Integer(1)]}

EnvInit ==
    /\ RunIdle
    /\ heap = EmptyHeap
    /\ envs = <<NewEnvironment>>
    /\ argv = <<>>
    /\ trace = <<>>
    /\ opc = "ready"

Enclose ==
    /\ Len(envs) < MaxEnvs
    /\ \E outer \in 1..Len(envs) :
        /\ envs' = Append(envs, NewEnclosedEnvironment(outer))
        /\ trace' = <<[op |-> "enclose", outer |-> outer]>>
    /\ UNCHANGED <<heap, argv, opc>>
    /\ UNCHANGED runVars

EnvSet ==
    /\ \E e \in 1..Len(envs), b \in EnvBindings :
        /\ envs' = Set(envs, e, b.name, b.val)
        /\ trace' = <<[op |-> "set", env |-> e, name |-> b.name, val |-> b.val]>>
    /\ UNCHANGED <<heap, argv, opc>>
    /\ UNCHANGED runVars

EnvGet ==
    /\ \E e \in 1..Len(envs), name \in EnvNames :
        LET r == Get(envs, e, name) IN
        trace' = <<[op |-> "get", env |-> e, name |-> name,
                    obj |-> r.obj, ok |-> r.ok]>>
    /\ UNCHANGED <<heap, envs, argv, opc>>
    /\ UNCHANGED runVars

EnvAssign ==
    /\ \E e \in 1..Len(envs), b \in EnvBindings :
        LET r == evalAssignmentExpression(envs, e, b.name, b.val) IN
        /\ envs' = r.envs
        /\ trace' = <<[op |-> "assign", env |-> e, name |-> b.name,
                       val |-> b.val, ret |-> r.obj]>>
    /\ UNCHANGED <<heap, argv, opc>>
    /\ UNCHANGED runVars

EnvNext == Enclose \/ EnvSet \/ EnvGet \/ EnvAssign

EnvSpec == EnvInit /\ [][EnvNext]_vars

(***************************************************************************)
(* Programs with bindings, calls, closures, Arrays and Hashes, run by      *)
(* EvaluateFile with the global Environment: parsed as above, then         *)
(* evaluated statement by statement; trace holds the statements' values.   *)
(***************************************************************************)
Id(name) == <<IdentTok(name)>>
Str(chars) == <<Tok("STRING", <<chars>>)>>

LetStmt(name, exp) == S("LET") \o Id(name) \o S("=") \o exp \o S(";")
Fn(params, body) ==
    S("FUNCTION") \o S("(") \o params \o S(")") \o S("{") \o body \o S("}")
CallOf(function, args) == function \o S("(") \o args \o S(")")

\* r.m(args) and m(r, args)
MethodCall(r, m, args) == Id(r) \o S(".") \o CallOf(Id(m), args)
PlainCall(m, r, args) ==
    CallOf(Id(m), Id(r) \o (IF args = <<>> THEN <<>> ELSE S(",") \o args))

\* let a = [1, 2, 3]; let h = {"a": 2, "b": 3}; let addTwo = fn(x) { x + 2 };
Prelude ==
    LetStmt("a", S("[") \o I(<<"1">>) \o S(",") \o I(<<"2">>) \o S(",")
                 \o I(<<"3">>) \o S("]"))
    \o LetStmt("h", S("{") \o Str("a") \o S(":") \o I(<<"2">>) \o S(",")
                    \o Str("b") \o S(":") \o I(<<"3">>) \o S("}"))
    \o LetStmt("addTwo", Fn(Id("x"), Id("x") \o S("+") \o I(<<"2">>)))

\* Receiver, builtin and argument text of the calls that programs make.
CallShapes ==
    {<<"a", "pop", <<>>>>, <<"a", "shift", <<>>>>, <<"a", "rest", <<>>>>,
     <<"a", "push", I(<<"4">>)>>, <<"a", "slice", I(<<"1">>)>>,
     <<"a", "map", Id("addTwo")>>, <<"a", "len", <<>>>>,
     <<"h", "delete", Str("a")>>,
     <<"h", "delete", Str("a") \o S(",") \o Str("b")>>,
     <<"h", "valuesAt", Str("b")>>, <<"h", "toArray", <<>>>>,
     <<"a", "first", <<>>>>, <<"a", "last", <<>>>>, <<"a", "puts", <<>>>>,
     <<"h", "dig", Str("a")>>, <<"h", "pop", <<>>>>, <<"a", "push", <<>>>>,
     <<"zz", "len", <<>>>>,
     <<"a", "map", Fn(Id("x"), Id("x") \o S("*") \o Id("x"))>>}

\* A call in either form, or a read of what the calls work on.
CallStatements ==
    {MethodCall(c[1], c[2], c[3]) \o S(";") : c \in CallShapes}
    \cup {PlainCall(c[2], c[1], c[3]) \o S(";") : c \in CallShapes}
    \cup {Id("a") \o S(";"), Id("h") \o S(";"),
          Id("h") \o S("[") \o Str("a") \o S("]") \o S(";"),
          Id("h") \o S("[") \o Str("b") \o S("]") \o S(";"),
          Id("a") \o S("[") \o I(<<"0">>) \o S("]") \o S(";")}

CallSources ==
    {Prelude \o s1 \o s2 : s1 \in CallStatements, s2 \in CallStatements}

\* let x = 9; let y = 9;  (or nothing)
\* let newAdder = fn(x) { fn(y) { x + y } };
\* let addA = newAdder(a); let addB = newAdder(b); addA(c); addB(d);
AdderDigits == {<<"2">>, <<"3">>, <<"5">>}

ShadowedNames == LetStmt("x", I(<<"9">>)) \o LetStmt("y", I(<<"9">>))

NewAdder ==
    LetStmt("newAdder",
            Fn(Id("x"), Fn(Id("y"), Id("x") \o S("+") \o Id("y"))))

ClosureSource(pre, a, b, c, d) ==
    pre \o NewAdder
    \o LetStmt("addA", CallOf(Id("newAdder"), I(a)))
    \o LetStmt("addB", CallOf(Id("newAdder"), I(b)))
    \o CallOf(Id("addA"), I(c)) \o S(";")
    \o CallOf(Id("addB"), I(d)) \o S(";")

ClosureSources ==
    {ClosureSource(pre, a, b, c, d) :
        pre \in {<<>>, ShadowedNames}, a \in AdderDigits, b \in AdderDigits,
        c \in AdderDigits, d \in AdderDigits}

\* let d = {k1: v1, k2: v2}; d[k1]; d[k2];
LiteralKeys == {I(<<"1">>), I(<<"2">>), Str("a"), S("TRUE")}
LiteralValues == {I(<<"7">>), I(<<"8">>)}

HashSource(k1, v1, k2, v2) ==
    LetStmt("d", S("{") \o k1 \o S(":") \o v1 \o S(",") \o k2 \o S(":")
                 \o v2 \o S("}"))
    \o Id("d") \o S("[") \o k1 \o S("]") \o S(";")
    \o Id("d") \o S("[") \o k2 \o S("]") \o S(";")

HashSources ==
    {HashSource(k1, v1, k2, v2) :
        k1 \in LiteralKeys, k2 \in LiteralKeys,
        v1 \in LiteralValues, v2 \in LiteralValues}

\* let x = 1; let f = fn() { x = 2; }; f(); x;
AssignSource ==
    LetStmt("x", I(<<"1">>))
    \o LetStmt("f", Fn(<<>>, Id("x") \o S("=") \o I(<<"2">>) \o S(";")))
    \o CallOf(Id("f"), <<>>) \o S(";") \o Id("x") \o S(";")

\* Largest bound N of a generated loop.
MaxLoop == 3

IntLit(n) == I(<<DigitChars[n + 1]>>)

\* for (let x = A; x < N; x = x + 1) { body };
ForLoop(a, n, body) ==
    S("FOR") \o S("(") \o LetStmt("x", IntLit(a))
    \o Id("x") \o S("<") \o IntLit(n) \o S(";")
    \o Id("x") \o S("=") \o Id("x") \o S("+") \o IntLit(1) \o S(")")
    \o S("{") \o body \o S("}") \o S(";")

AssignYX == Id("y") \o S("=") \o Id("x") \o S(";")

\* let y = 0; let log = [];
\* for (...) { log = push(log, x); y = x; }; log; y; x;
ForTop(a, n) ==
    LetStmt("y", IntLit(0)) \o LetStmt("log", S("[") \o S("]"))
    \o ForLoop(a, n,
               Id("log") \o S("=")
               \o CallOf(Id("push"), Id("log") \o S(",") \o Id("x"))
               \o S(";") \o AssignYX)
    \o Id("log") \o S(";") \o Id("y") \o S(";") \o Id("x") \o S(";")

\* let y = 0; let f = fn() { for (...) { y = x; }; y; }; f(); y;
ForInFn(a, n) ==
    LetStmt("y", IntLit(0))
    \o LetStmt("f", Fn(<<>>, ForLoop(a, n, AssignYX) \o Id("y") \o S(";")))
    \o CallOf(Id("f"), <<>>) \o S(";") \o Id("y") \o S(";")

ForSources ==
    {ForTop(a, n) : a \in 0..MaxLoop, n \in 0..MaxLoop}
    \cup {ForInFn(a, n) : a \in 0..MaxLoop, n \in 0..MaxLoop}

ProgramSources ==
    CallSources \cup ClosureSources \cup HashSources \cup {AssignSource}
        \cup ForSources

ProgramInit ==
    /\ lexer = New(<<>>)
    /\ input \in ProgramSources
    /\ pos = 1
    /\ errors = <<>>
    /\ statements = <<>>
    /\ ppc = "parse"
    /\ idx = 1
    /\ result = GoNil
    /\ evlog = <<>>
    /\ epc = "idle"
    /\ heap \in {[EmptyHeap EXCEPT !.seed = s] : s \in 0..MaxSeed}
    /\ envs = <<>>
    /\ argv = <<>>
    /\ trace = <<>>
    /\ opc = "idle"

\* One iteration of the loop of evalProgram, in the global Environment.
EvalInStatement ==
    /\ epc = "run"
    /\ idx <= Len(statements)
    /\ LET r == callEval(statements[idx], 1, heap) IN
        /\ heap' = r.heap
        /\ trace' = Append(trace, r.obj)
        /\ result' = unwrapReturnValue(r.obj)
        /\ epc' = CASE IsPanic(r.obj) -> "panic"
                    [] r.obj.type \in {"RETURN_VALUE", "ERROR"} -> "done"
                    [] OTHER -> "run"
        /\ idx' = IF IsPanic(r.obj) \/ r.obj.type \in {"RETURN_VALUE", "ERROR"}
                  THEN idx ELSE idx + 1
    /\ UNCHANGED parserVars
    /\ UNCHANGED <<evlog, envs, argv, opc>>

\* evalProgram's loop is over: it returns result.
EvalInReturn ==
    /\ epc = "run"
    /\ idx > Len(statements)
    /\ epc' = "done"
    /\ UNCHANGED <<idx, result, evlog>>
    /\ UNCHANGED parserVars
    /\ UNCHANGED objVars

ProgramNext ==
    ParseStatement \/ ParseReturn \/ EvalInStatement \/ EvalInReturn

ProgramSpec == ProgramInit /\ [][ProgramNext]_vars

(***************************************************************************)
(* ParserSpec: ParseProgram on every short token sequence, well-formed or  *)
(* not.                                                                    *)
(***************************************************************************)
MaxTokens == 3

SoupTokens ==
    {Sym("{"), Sym("}"), Sym("("), Sym("["), Sym(","), Sym(":"), Sym("="),
     Sym(";"), IdentTok("x"), IntTok(<<"1">>)}

RECURSIVE TokensOfLen(_)
TokensOfLen(n) ==
    IF n = 0 THEN {<<>>}
    ELSE {Append(s, t) : s \in TokensOfLen(n - 1), t \in SoupTokens}

TokenSoup == UNION {TokensOfLen(n) : n \in 0..MaxTokens}

\* What the token sequences go on from: nothing, the inside of the block of
\* an if expression, the inside of the body of a function literal.
Openers ==
    {<<>>,
     <<Sym("IF"), Sym("("), IdentTok("x"), Sym(")"), Sym("{")>>,
     <<Sym("FUNCTION"), Sym("("), IdentTok("x"), Sym(")"), Sym("{")>>}

\* let x = ; let y 5 =
MalformedLets ==
    <<Sym("LET"), IdentTok("x"), Sym("="), Sym(";"),
      Sym("LET"), IdentTok("y"), IntTok(<<"5">>), Sym("=")>>

ParserInputs ==
    {o \o s : o \in Openers, s \in TokenSoup} \cup {MalformedLets}

ParserInit ==
    /\ lexer = New(<<>>)
    /\ input = <<>>
    /\ pos = 1
    /\ errors = <<>>
    /\ statements = <<>>
    /\ ppc = "new"
    /\ idx = 1
    /\ result = GoNil
    /\ evlog = <<>>
    /\ epc = "idle"
    /\ ObjectsIdle

\* parser.New on the tokens of a lexer: the cursor is on the first token.
NewParserCall ==
    /\ ppc = "new"
    /\ \E toks \in ParserInputs : input' = toks
    /\ ppc' = "parse"
    /\ UNCHANGED <<pos, errors, statements, lexer>>
    /\ UNCHANGED evalVars
    /\ UNCHANGED objVars

ParserNext == NewParserCall \/ ParseStatement \/ ParseReturn

ParserSpec == ParserInit /\ [][ParserNext]_vars

(***************************************************************************)
(* LexSpec: NextToken called again and again on one Lexer.                 *)
(***************************************************************************)
MaxInput == 3

InputBytes == {"i", "f", "1", "\"", " ", "=", "!", ";", "@", NUL}

RECURSIVE InputsOfLen(_)
InputsOfLen(n) ==
    IF n = 0 THEN {<<>>}
    ELSE {Append(s, b) : s \in InputsOfLen(n - 1), b \in InputBytes}

LexInputs == UNION {InputsOfLen(n) : n \in 0..MaxInput}

LexInit ==
    /\ \E in \in LexInputs : lexer = New(in)
    /\ input = <<>>
    /\ pos = 1
    /\ errors = <<>>
    /\ statements = <<>>
    /\ ppc = "idle"
    /\ idx = 1
    /\ result = GoNil
    /\ evlog = <<>>
    /\ epc = "idle"
    /\ heap = EmptyHeap
    /\ envs = <<>>
    /\ argv = <<>>
    /\ trace = <<>>
    /\ opc = "idle"

\* One call of l.NextToken(); a panic ends the program.
CallNextToken ==
    /\ ~lexer.panicked
    /\ Len(trace) < Len(lexer.input) + 3
    /\ LET r == NextToken(lexer) IN
       /\ lexer' = r.l
       /\ trace' = Append(trace, [tok |-> r.tok, before |-> lexer.position,
                                  after |-> r.l.position])
    /\ UNCHANGED <<input, pos, errors, statements, ppc, idx, result, evlog,
                   epc, heap, envs, argv, opc>>

LexNext == CallNextToken

LexSpec == LexInit /\ [][LexNext]_vars

(***************************************************************************)
(* Claims                                                                  *)
(***************************************************************************)
InfixNode(op, l, r) ==
    [node |-> "InfixExpression", operator |-> op, left |-> l, right |-> r]

ExprStmt(e) == [node |-> "ExpressionStatement", expression |-> e]

\* The decimal value of an integer literal token.
Literal(tok) == [node |-> "IntegerLiteral", value |-> DigitsValue(tok.literal, 10, 0)]

\* The claim's ladder: EQUALS < LESSGREATER < SUM < PRODUCT.
Rank(op) ==
    CASE op \in {"==", "!="} -> 1
      [] op \in {"<", ">"} -> 2
      [] op \in {"+", "-"} -> 3
      [] op \in {"*", "/"} -> 4

IsChainSource(src) ==
    /\ Len(src) = 5
    /\ \A i \in {1, 3, 5} : src[i].type = "INT"
    /\ \A i \in {2, 4} : src[i].type \in BinaryOps

ExpectedChain(src) ==
    LET a == Literal(src[1])
        b == Literal(src[3])
        c == Literal(src[5])
        op1 == src[2].type
        op2 == src[4].type
    IN IF Rank(op2) <= Rank(op1)
       THEN InfixNode(op2, InfixNode(op1, a, b), c)
       ELSE InfixNode(op1, a, InfixNode(op2, b, c))

TenMinusTwoMinusThree == Chain(<<"1", "0">>, "-", <<"2">>, "-", <<"3">>)
OnePlusTwoTimesThree == Chain(<<"1">>, "+", <<"2">>, "*", <<"3">>)

\* C1: an unparenthesised a op1 b op2 c parses, without error, to
\* ((a op1 b) op2 c) when the precedence of op2 is at most that of op1 and to
\* (a op1 (b op2 c)) when it is higher; so 10 - 2 - 3 evaluates to 5 and
\* 1 + 2 * 3 to 7.
C1_PrecedenceNesting ==
    /\ (ppc = "done" /\ IsChainSource(input)) =>
            /\ errors = <<>>
            /\ statements = <<ExprStmt(ExpectedChain(input))>>
    /\ (epc = "done" /\ input = TenMinusTwoMinusThree) => result = Integer(5)
    /\ (epc = "done" /\ input = OnePlusTwoTimesThree) => result = Integer(7)

C1_Witness ==
    /\ epc = "done"
    /\ input = TenMinusTwoMinusThree
    /\ statements[1].expression.left.operator = "-"
    /\ result = Integer(5)


(***************************************************************************)
(* Early exit of blocks and programs                                       *)
(***************************************************************************)
IsStop(o) == o.type \in {"RETURN_VALUE", "ERROR"}

Unwrap(o) == IF o.type = "RETURN_VALUE" THEN o.wrapped ELSE o

StmtValue(i) == Eval(statements[i]).obj

RECURSIVE LogsUpTo(_)
LogsUpTo(n) == IF n = 0 THEN <<>> ELSE LogsUpTo(n - 1) \o Eval(statements[n]).log

\* A logged block evaluation: the values of the statements it evaluated, in
\* order, hold a ReturnValue or Error only in the last place, which is then
\* the block's value as it is; without one the block evaluated every statement.
BlockStopsAtFirst(e) ==
    LET n == Len(e.values) IN
    /\ n <= e.size
    /\ \A i \in 1..n : IsStop(e.values[i]) => (i = n /\ e.result = e.values[i])
    /\ (\A i \in 1..n : ~IsStop(e.values[i])) => n = e.size

ProgramStopsAtFirst ==
    LET stops == {i \in 1..Len(statements) : IsStop(StmtValue(i))} IN
    IF stops = {}
    THEN idx = Len(statements) + 1 /\ evlog = LogsUpTo(Len(statements))
    ELSE LET first == CHOOSE i \in stops : \A j \in stops : i <= j IN
         /\ idx = first
         /\ result = Unwrap(StmtValue(first))
         /\ evlog = LogsUpTo(first)

NineReturnNine ==
    I(<<"9">>) \o S(";")
        \o S("RETURN") \o I(<<"2">>) \o S("*") \o I(<<"5">>) \o S(";")
        \o I(<<"9">>) \o S(";")

NestedReturn ==
    IfBlock(IfBlock(S("RETURN") \o I(<<"2">>) \o S("*") \o I(<<"5">>) \o S(";"))
                \o I(<<"9">>) \o S(";"))
        \o I(<<"9">>) \o S(";")

\* C2: in a block and in a program the first statement whose value is a
\* ReturnValue or an Error ends the evaluation: no later statement is
\* evaluated; the block yields that value unchanged (a ReturnValue stays
\* wrapped), the program yields the wrapped value or the Error; this holds
\* through nested if-blocks, and 9; return 2 * 5; 9; yields 10.
C2_FirstStopEnds ==
    /\ \A k \in 1..Len(evlog) :
            evlog[k].kind = "block" => BlockStopsAtFirst(evlog[k])
    /\ epc = "done" => ProgramStopsAtFirst
    /\ (epc = "done" /\ input \in {NineReturnNine, NestedReturn}) =>
            result = Integer(10)

C2_Witness ==
    /\ epc = "done"
    /\ input = NestedReturn
    /\ idx = 1
    /\ Len(statements) = 2
    /\ result = Integer(10)
    /\ \E k \in 1..Len(evlog) :
            /\ evlog[k].kind = "block"
            /\ evlog[k].size = 2
            /\ evlog[k].values = <<ReturnValue(Integer(10))>>
            /\ evlog[k].result = ReturnValue(Integer(10))

\* C3: the result of a program is never a ReturnValue, and no ReturnValue is
\* ever passed as an operand to a prefix or infix operator.
C3_NoReturnValueEscapes ==
    /\ epc = "done" => result.type # "RETURN_VALUE"
    /\ \A k \in 1..Len(evlog) :
            evlog[k].kind = "op" =>
                \A i \in 1..Len(evlog[k].operands) :
                    evlog[k].operands[i].type # "RETURN_VALUE"

(***************************************************************************)
(* Infix expressions: a program of one infix expression statement          *)
(***************************************************************************)
OneInfix ==
    /\ ppc = "done"
    /\ errors = <<>>
    /\ Len(statements) = 1
    /\ statements[1].node = "ExpressionStatement"
    /\ statements[1].expression.node = "InfixExpression"

LeftValue == Eval(statements[1].expression.left).obj
RightValue == Eval(statements[1].expression.right).obj
Operator == statements[1].expression.operator

\* C4: an infix expression one of whose operands evaluates to an Error
\* yields that Error (the left operand's when both do), and the operator is
\* not applied.
C4_ErrorOperandYieldsIt ==
    (/\ OneInfix
     /\ epc \in {"done", "panic"}
     /\ IsObject(LeftValue) /\ IsObject(RightValue)
     /\ isError(LeftValue) \/ isError(RightValue)) =>
        /\ epc = "done"
        /\ result = (IF isError(LeftValue) THEN LeftValue ELSE RightValue)
        /\ evlog = Eval(statements[1].expression.left).log
                        \o Eval(statements[1].expression.right).log

DifferentTypes ==
    /\ OneInfix
    /\ IsObject(LeftValue) /\ IsObject(RightValue)
    /\ ~isError(LeftValue) /\ ~isError(RightValue)
    /\ LeftValue.type # RightValue.type

SameNonIntegerType ==
    /\ OneInfix
    /\ IsObject(LeftValue) /\ IsObject(RightValue)
    /\ ~isError(LeftValue) /\ ~isError(RightValue)
    /\ LeftValue.type = RightValue.type
    /\ LeftValue.type # "INTEGER"

TypeMismatch ==
    newError(<<"type mismatch: ", LeftValue.type, " ", Operator, " ",
               RightValue.type>>)

UnknownOperator ==
    newError(<<"unknown operator: ", LeftValue.type, " ", Operator, " ",
               RightValue.type>>)

IntegerOperands ==
    /\ OneInfix
    /\ IsObject(LeftValue) /\ IsObject(RightValue)
    /\ LeftValue.type = "INTEGER"
    /\ RightValue.type = "INTEGER"

\* The quotient of a by b rounded toward zero, b not 0.
Truncated(a, b) ==
    CHOOSE q \in -Abs(a)..Abs(a) :
        /\ Abs(q) * Abs(b) <= Abs(a)
        /\ Abs(a) < (Abs(q) + 1) * Abs(b)
        /\ (q # 0 => ((q < 0) <=> ((a < 0) # (b < 0))))

\* C6: an infix expression over two Integers never aborts the interpreter:
\* it yields an Integer, a Boolean or an Error for every operator and all
\* operand values, a / 0 included, and / truncates toward zero.
C6_IntegerInfixNeverAborts ==
    (IntegerOperands /\ epc \in {"done", "panic"}) =>
        /\ epc = "done"
        /\ result.type \in {"INTEGER", "BOOLEAN", "ERROR"}
        /\ (Operator = "/" /\ RightValue.value # 0) =>
                result = Integer(Truncated(LeftValue.value, RightValue.value))

(***************************************************************************)
(* Builtins                                                                *)
(***************************************************************************)
ClaimedBuiltins ==
    {"len", "first", "last", "rest", "push", "pop", "shift", "slice", "map",
     "delete", "valuesAt", "toArray", "dig"}

\* C7: every builtin returns an Object for every argument list of 0 to 4
\* arguments of any types, and never aborts the process.
C7_BuiltinsAlwaysReturnAnObject ==
    \A i \in 1..Len(trace) :
        trace[i].op \in ClaimedBuiltins => IsObject(trace[i].ret)

\* The operation a step has just made, if the step made one.
Made(e) == Len(trace') = Len(trace) + 1 /\ e = trace'[Len(trace')]

\* C8: pop on a non-empty Array removes exactly the last element in place
\* and returns it, shift removes exactly the first one and returns it, the
\* other elements keep their order, and every binding of the instance
\* observes the mutation.
C8_PopShiftInPlace ==
    [][\A e \in {trace'[Len(trace')]} :
        (/\ Made(e)
         /\ e.op \in {"pop", "shift"}
         /\ e.args[1].type = "ARRAY"
         /\ Elements(heap, e.args[1].ref) # <<>>) =>
            LET k == e.args[1].ref
                old == Elements(heap, k)
                new == IF e.op = "pop" THEN SubSeq(old, 1, Len(old) - 1)
                       ELSE Tail(old)
            IN
            /\ e.ret = (IF e.op = "pop" THEN old[Len(old)] ELSE old[1])
            /\ Len(heap'.arrays) = Len(heap.arrays)
            /\ \A n \in DOMAIN envs[1].store :
                    envs[1].store[n] = ArrayObj(k) =>
                        /\ envs'[1].store[n] = ArrayObj(k)
                        /\ Elements(heap', envs'[1].store[n].ref) = new
            /\ \A j \in 1..Len(heap.arrays) :
                    j # k => Elements(heap', j) = Elements(heap, j)
      ]_vars

C8_Witness ==
    /\ trace # <<>>
    /\ trace[Len(trace)] = CallEntry("pop", <<ArrayObj(1)>>, Integer(3))
    /\ DOMAIN envs[1].store = {"a", "b"}
    /\ envs[1].store["a"] = ArrayObj(1)
    /\ envs[1].store["b"] = ArrayObj(1)
    /\ Elements(heap, 1) = <<Integer(1), Integer(2)>>

\* A push, rest or slice made earlier that returned an Array.
IsCopy(e) ==
    /\ e.op \in {"push", "rest", "slice"}
    /\ e.ret.type = "ARRAY"

\* C9: push, rest and slice leave their argument unchanged and return a new
\* Array instance; no later in-place mutation (index assignment, pop, shift)
\* of the result is observable through the argument, nor one of the
\* argument through the result.
C9_CopiesShareNothing ==
    [][\A e \in {trace'[Len(trace')]} :
        /\ (Made(e) /\ IsCopy(e)) =>
                /\ e.ret.ref > Len(heap.arrays)
                /\ Elements(heap', e.args[1].ref) = Elements(heap, e.args[1].ref)
        /\ (/\ Made(e)
            /\ e.op \in {"assign", "pop", "shift"}
            /\ e.args[1].type = "ARRAY") =>
                \A i \in 1..Len(trace) :
                    IsCopy(trace[i]) =>
                        LET a == trace[i].args[1].ref
                            b == trace[i].ret.ref
                            t == e.args[1].ref
                        IN /\ t = b => Elements(heap', a) = Elements(heap, a)
                           /\ t = a => Elements(heap', b) = Elements(heap, b)
      ]_vars

(***************************************************************************)
(* Environment                                                             *)
(***************************************************************************)
\* The scopes from e outward.
RECURSIVE Scopes(_, _)
Scopes(es, e) ==
    IF es[e].outer = 0 THEN <<e>> ELSE <<e>> \o Scopes(es, es[e].outer)

\* The binding of name in the innermost scope from e outward that has one.
Innermost(es, e, name) ==
    LET sc == Scopes(es, e)
        has == {i \in 1..Len(sc) : name \in DOMAIN es[sc[i]].store}
    IN IF has = {} THEN [obj |-> GoNil, ok |-> FALSE]
       ELSE [obj |-> es[sc[CHOOSE i \in has : \A j \in has : i <= j]].store[name],
             ok |-> TRUE]

\* C10: Set binds the name in the Environment it is called on and changes
\* no binding of any other Environment of the chain; Get returns the
\* innermost binding of the name along the chain, an outer scope being
\* consulted only when every scope inside it lacks the name.
C10_SetLocalGetInnermost ==
    [][\A e \in {trace'[1]} :
        /\ e.op = "set" =>
            /\ Len(envs') = Len(envs)
            /\ envs'[e.env].store[e.name] = e.val
            /\ envs'[e.env].outer = envs[e.env].outer
            /\ DOMAIN envs'[e.env].store = DOMAIN envs[e.env].store \cup {e.name}
            /\ \A n \in DOMAIN envs[e.env].store :
                    n # e.name => envs'[e.env].store[n] = envs[e.env].store[n]
            /\ \A k \in 1..Len(envs) : k # e.env => envs'[k] = envs[k]
        /\ e.op = "get" =>
            /\ envs' = envs
            /\ [obj |-> e.obj, ok |-> e.ok] = Innermost(envs, e.env, e.name)
      ]_vars

C10_Witness ==
    /\ Len(envs) = 3
    /\ envs[2].outer = 1
    /\ envs[3].outer = 2
    /\ "x" \in DOMAIN envs[1].store
    /\ "x" \in DOMAIN envs[2].store
    /\ "x" \notin DOMAIN envs[3].store
    /\ envs[1].store["x"] = Integer(1)
    /\ envs[2].store["x"] = Integer(2)
    /\ trace = <<[op |-> "get", env |-> 3, name |-> "x",
                  obj |-> Integer(2), ok |-> TRUE]>>

\* The innermost scope from e outward that binds name; 0 if none does.
Holder(es, e, name) ==
    LET sc == Scopes(es, e)
        has == {i \in 1..Len(sc) : name \in DOMAIN es[sc[i]].store}
    IN IF has = {} THEN 0 ELSE sc[CHOOSE i \in has : \A j \in has : i <= j]

\* C11: a plain assignment x = e evaluated in an enclosed scope where x is
\* bound only in an outer scope updates that outer binding and creates no
\* binding in the inner scope; assigning to a name bound nowhere in the
\* chain yields an Error and creates no binding.
C11_AssignmentUpdatesOuterBinding ==
    [][\A e \in {trace'[1]} :
        e.op = "assign" =>
            LET h == Holder(envs, e.env, e.name) IN
            IF h = 0
            THEN e.ret.type = "ERROR" /\ envs' = envs
            ELSE /\ e.ret = e.val
                 /\ envs'[h].store[e.name] = e.val
                 /\ \A k \in 1..Len(envs) :
                        DOMAIN envs'[k].store = DOMAIN envs[k].store
      ]_vars

(***************************************************************************)
(* Calls and closures                                                      *)
(***************************************************************************)
DigitValue(d) == DigitsValue(d, 10, 0)

\* C12: a function call evaluates the body in a new Environment enclosed by
\* the Environment the function literal was evaluated in, not the caller's:
\* with newAdder = fn(x) { fn(y) { x + y } }, newAdder(a)(c) is a + c and
\* newAdder(b)(d) is b + d, whatever x and y are bound to where the calls
\* are made and whichever adder was made first.
C12_ClosuresKeepDefinitionScope ==
    (epc = "done" /\ input \in ClosureSources) =>
        \A pre \in {<<>>, ShadowedNames} :
            \A a \in AdderDigits, b \in AdderDigits,
               c \in AdderDigits, d \in AdderDigits :
                input = ClosureSource(pre, a, b, c, d) =>
                    LET n == Len(trace) IN
                    /\ Len(errors) = 0
                    /\ n = Len(statements)
                    /\ trace[n - 1] = Integer(DigitValue(a) + DigitValue(c))
                    /\ trace[n] = Integer(DigitValue(b) + DigitValue(d))
                    /\ result = trace[n]
                    /\ Len(heap.envs) = 5
                    /\ heap.envs[2].outer = 1 /\ heap.envs[3].outer = 1
                    /\ heap.envs[4].outer = 2 /\ heap.envs[5].outer = 3

\* let x = 9; let y = 9; ... newAdder(2)(3) is 5 and newAdder(3)(5) is 8.
C12_Witness ==
    /\ input = ClosureSource(ShadowedNames, <<"2">>, <<"3">>, <<"3">>, <<"5">>)
    /\ epc = "done"
    /\ Len(trace) = 7
    /\ trace[6] = Integer(5)
    /\ trace[7] = Integer(8)

(***************************************************************************)
(* Parser errors                                                           *)
(***************************************************************************)
\* C13: ParseProgram does not stop at the first syntax error: of two
\* malformed statements each yields its error strings (at least one), in
\* the order of the source, and the well-formed statement that follows is
\* parsed and is the last of Program.Statements.
C13_ParsingGoesOnAfterAnError ==
    (ppc = "done" /\ input \in RecoverySources) =>
        \A m1 \in Malformed, m2 \in Malformed \cup {<<>>}, g \in WellFormed :
            input = m1 \o m2 \o g =>
                /\ Len(ParseProgram(m1).errors) >= 1
                /\ m2 # <<>> => Len(ParseProgram(m2).errors) >= 1
                /\ errors = ParseProgram(m1).errors \o ParseProgram(m2).errors
                /\ Len(statements) >= 1
                /\ statements[Len(statements)] = ParseProgram(g).stmts[1]
                /\ Len(ParseProgram(g).stmts) = 1
                /\ Len(ParseProgram(g).errors) = 0

\* Is the node, with everything below it, free of nil?  The alternative
\* of an if and nothing else may be absent.
RECURSIVE Complete(_)
CompleteAll(nodes) == \A i \in 1..Len(nodes) : Complete(nodes[i])

Complete(n) ==
    CASE n.node = "nil" -> FALSE
      [] n.node = "ExpressionStatement" -> Complete(n.expression)
      [] n.node = "LetStatement" -> Complete(n.name) /\ Complete(n.value)
      [] n.node = "ReturnStatement" -> Complete(n.returnValue)
      [] n.node = "BlockStatement" -> CompleteAll(n.statements)
      [] n.node = "PrefixExpression" -> Complete(n.right)
      [] n.node = "InfixExpression" -> Complete(n.left) /\ Complete(n.right)
      [] n.node = "IfExpression" ->
            /\ Complete(n.condition)
            /\ Complete(n.consequence)
            /\ IsNilNode(n.alternative) \/ Complete(n.alternative)
      [] n.node = "FunctionLiteral" ->
            CompleteAll(n.parameters) /\ Complete(n.body)
      [] n.node = "CallExpression" ->
            Complete(n.function) /\ CompleteAll(n.arguments)
      [] n.node = "InternalFunctionCall" ->
            /\ Complete(n.caller)
            /\ Complete(n.function)
            /\ CompleteAll(n.arguments)
      [] n.node = "ArrayLiteral" -> CompleteAll(n.elements)
      [] n.node = "HashLiteral" ->
            \A i \in 1..Len(n.pairs) :
                Complete(n.pairs[i][1]) /\ Complete(n.pairs[i][2])
      [] n.node = "IndexExpression" -> Complete(n.left) /\ Complete(n.index)
      [] n.node = "IndexAssignment" ->
            Complete(n.left) /\ Complete(n.index) /\ Complete(n.value)
      [] n.node = "AssignmentExpression" ->
            Complete(n.name) /\ Complete(n.value)
      [] OTHER -> TRUE

\* C14: when ParseProgram finishes with an empty error list the AST is
\* complete: no statement has a nil expression and no expression node has
\* a nil operand, callee, index, value or argument; a parse function that
\* returns nil has recorded an error, also for an assignment or a '.'-call
\* whose left operand is not a bare identifier.
C14_NoErrorsMeansCompleteAST ==
    (ppc = "done" /\ Len(errors) = 0) => CompleteAll(statements)

\* The token types (src/unnamed/part_005, and those the parser registers).
TokenTypes ==
    {"ILLEGAL", "EOF", "IDENT", "INT", "STRING", "=", "+", "-", "!", "*", "/",
     "<", ">", "==", "!=", ",", ";", ":", ".", "(", ")", "{", "}", "[", "]",
     "FUNCTION", "LET", "TRUE", "FALSE", "IF", "ELSE", "RETURN"}

ExpectedGot(e) ==
    /\ Len(e) = 5
    /\ e[1] = "expected next token to be " /\ e[2] \in TokenTypes
    /\ e[3] = ", got " /\ e[4] \in TokenTypes
    /\ e[5] = " instead"

NoPrefixFn(e) ==
    /\ Len(e) = 3
    /\ e[1] = "no prefix parse function for " /\ e[2] \in TokenTypes
    /\ e[3] = " found"

\* could not parse "<digits>" as integer
CouldNotParse(e) ==
    /\ Len(e) >= 5
    /\ e[1] = "could not parse " /\ e[2] = "\""
    /\ \A i \in 3..(Len(e) - 2) : \E k \in 1..10 : DigitChars[k] = e[i]
    /\ e[Len(e) - 1] = "\"" /\ e[Len(e)] = " as integer"

\* C15, as stated: every string in the parser's error list has one of
\* exactly two shapes, 'expected next token to be <kind>, got <kind>
\* instead' or 'no prefix parse function for <kind> found', also for
\* integer literals of any length.
C15_AsStated ==
    \A i \in 1..Len(errors) : ExpectedGot(errors[i]) \/ NoPrefixFn(errors[i])

\* C15, corrected: every string in the parser's error list has one of
\* three shapes: the two above, or 'could not parse "<literal>" as
\* integer', which is recorded for exactly those INT tokens that
\* strconv.ParseInt rejects (a leading 0 followed by a digit 8 or 9 among
\* the rest, or a value beyond int64) and for nothing else.
C15_ThreeShapes ==
    /\ \A i \in 1..Len(errors) :
        \/ ExpectedGot(errors[i])
        \/ NoPrefixFn(errors[i])
        \/ /\ CouldNotParse(errors[i])
           /\ \E k \in 1..Len(input) :
                /\ input[k].type = "INT"
                /\ ~ParseInt(input[k].literal).ok
                /\ errors[i] = <<"could not parse ", "\"">> \o input[k].literal
                                   \o <<"\"", " as integer">>
    /\ (ppc = "done" /\ input \in IntegerSources) =>
            (Len(errors) = 0 <=>
                \A k \in 1..Len(input) :
                    input[k].type = "INT" => ParseInt(input[k].literal).ok)

\* 9223372036854775808; has been parsed and was reported.
C15_Witness ==
    /\ ppc = "done"
    /\ input = I([MaxInt64Digits EXCEPT ![19] = "8"]) \o S(";")
    /\ Len(errors) = 1
    /\ CouldNotParse(errors[1])

\* C16: on every input, NextToken reaches EOF within len(input) + 1 calls,
\* every call after the first EOF returns EOF again, every call that does not
\* return EOF consumes at least one byte, and no index outside the input is
\* read (an unterminated string literal included).
C16_EOFReachedAndKept ==
    /\ ~lexer.panicked
    /\ Len(trace) >= Len(lexer.input) + 1
           => \E i \in 1..(Len(lexer.input) + 1) : trace[i].tok.type = "EOF"
    /\ \A i \in 1..Len(trace), j \in 1..Len(trace) :
           (i < j /\ trace[i].tok.type = "EOF") => trace[j].tok.type = "EOF"
    /\ \A i \in 1..Len(trace) :
           trace[i].tok.type # "EOF" => trace[i].after > trace[i].before

\* The statement that ParseProgram makes of the tokens of one statement.
StatementOf(toks) == ParseProgramStep(NewParser(toks), <<>>).stmts[1]

\* r.m(args); and m(r, args); as parsed, for every call the programs make.
CallForms ==
    {[method |-> StatementOf(MethodCall(c[1], c[2], c[3]) \o S(";")),
      plain |-> StatementOf(PlainCall(c[2], c[1], c[3]) \o S(";"))] :
        c \in CallShapes}

\* C17: wherever a program is about to evaluate r.m(args), evaluating
\* m(r, args) in its place gives the same object and leaves the same heap
\* (the receiver's contents included).
C17_MethodCallIsPlainCall ==
    (epc = "run" /\ idx <= Len(statements) /\ input \in CallSources) =>
        \A c \in CallForms :
            statements[idx] = c.method =>
                callEval(c.method, 1, heap) = callEval(c.plain, 1, heap)

\* let a = [1, 2, 3]; ... a.pop(); len(a); has run: 3 was popped and len(a)
\* was 2.
C17_Witness ==
    /\ epc = "done"
    /\ input = Prelude \o MethodCall("a", "pop", <<>>) \o S(";")
                       \o PlainCall("len", "a", <<>>) \o S(";")
    /\ statements[4].expression.node = "InternalFunctionCall"
    /\ Len(trace) = 5
    /\ trace[4] = Integer(3)
    /\ trace[5] = Integer(2)

\* map(a, f); and a.map(f); as parsed, each with the statement f; .
MapForms ==
    {[stmt |-> StatementOf(MethodCall(c[1], c[2], c[3]) \o S(";")),
      f |-> StatementOf(c[3] \o S(";"))] : c \in {d \in CallShapes : d[2] = "map"}}
    \cup
    {[stmt |-> StatementOf(PlainCall(c[2], c[1], c[3]) \o S(";")),
      f |-> StatementOf(c[3] \o S(";"))] : c \in {d \in CallShapes : d[2] = "map"}}

\* C18: map(arr, f) returns a new Array as long as arr whose i-th element is
\* the result of calling f with the single argument arr[i]; arr keeps its
\* elements.
C18_MapCallsPerElement ==
    (epc = "run" /\ idx <= Len(statements) /\ input \in CallSources) =>
        \A c \in MapForms :
            statements[idx] = c.stmt =>
                LET arr == Get(heap.envs, 1, "a").obj
                    f == callEval(c.f, 1, heap).obj
                    before == Elements(heap, arr.ref)
                    r == callEval(c.stmt, 1, heap)
                IN
                /\ f.type = "FUNCTION"
                /\ r.obj.type = "ARRAY"
                /\ r.obj.ref > Len(heap.arrays)
                /\ Len(Elements(r.heap, r.obj.ref)) = Len(before)
                /\ \A i \in 1..Len(before) :
                       Elements(r.heap, r.obj.ref)[i]
                           = callApplyFunction(f, <<before[i]>>, heap).obj
                /\ Elements(r.heap, arr.ref) = before
                /\ r.heap.arrays[arr.ref] = heap.arrays[arr.ref]

\* let a = [1, 2, 3]; let addTwo = fn(x) { x + 2 }; map(a, addTwo); a; has
\* run: the map is [3, 4, 5] and a is still [1, 2, 3].
C18_Witness ==
    /\ epc = "done"
    /\ input = Prelude \o PlainCall("map", "a", Id("addTwo")) \o S(";")
                       \o Id("a") \o S(";")
    /\ Len(trace) = 5
    /\ trace[4].type = "ARRAY"
    /\ Elements(heap, trace[4].ref) = <<Integer(3), Integer(4), Integer(5)>>
    /\ trace[5] = Get(heap.envs, 1, "a").obj
    /\ Elements(heap, trace[5].ref) = <<Integer(1), Integer(2), Integer(3)>>

(***************************************************************************)
(* Hash literals and delete                                                *)
(***************************************************************************)
\* C19: a hash literal with the same key twice, {k: v1, k: v2}, gives a Hash
\* with one entry for k whose value is v2, the later one, on every
\* evaluation.
C19_LaterDuplicateKeyWins ==
    (epc = "done" /\ input \in HashSources) =>
        \A k \in LiteralKeys, v1 \in LiteralValues, v2 \in LiteralValues :
            input = HashSource(k, v1, k, v2) =>
                /\ Len(trace) = 3
                /\ Get(heap.envs, 1, "d").obj.type = "HASH"
                /\ Cardinality(
                       DOMAIN heap.hashes[Get(heap.envs, 1, "d").obj.href]) = 1
                /\ trace[2] = Integer(DigitValue(v2[1].literal))
                /\ trace[3] = trace[2]

\* delete(h, k1, ..., kn); and h.delete(k1, ..., kn); as parsed, each with
\* the String objects k1, ..., kn.
DeleteForms ==
    {[stmt |-> StatementOf(MethodCall(c[1], c[2], c[3]) \o S(";")),
      keys |-> {String(c[3][i].literal) :
                    i \in {j \in 1..Len(c[3]) : c[3][j].type = "STRING"}}] :
        c \in {d \in CallShapes : d[2] = "delete"}}
    \cup
    {[stmt |-> StatementOf(PlainCall(c[2], c[1], c[3]) \o S(";")),
      keys |-> {String(c[3][i].literal) :
                    i \in {j \in 1..Len(c[3]) : c[3][j].type = "STRING"}}] :
        c \in {d \in CallShapes : d[2] = "delete"}}

\* C20: delete(h, k1, ..., kn) on keys that h holds returns h itself; after
\* it h[ki] reads Null, the entry of ki is still there with Null as its key
\* and as its value, and every other entry is as it was.
C20_DeleteNullsInPlace ==
    (epc = "run" /\ idx <= Len(statements) /\ input \in CallSources) =>
        \A c \in DeleteForms :
            statements[idx] = c.stmt =>
                LET hash == Get(heap.envs, 1, "h").obj
                    before == heap.hashes[hash.href]
                    r == callEval(c.stmt, 1, heap)
                    after == r.heap.hashes[hash.href]
                IN
                /\ \A k \in c.keys : HashKey(k) \in DOMAIN before
                /\ r.obj = hash
                /\ Len(r.heap.hashes) = Len(heap.hashes)
                /\ DOMAIN after = DOMAIN before
                /\ \A k \in c.keys :
                       /\ after[HashKey(k)] = HashPair(NULL, NULL)
                       /\ evalIndexExpression(hash, k, r.heap) = NULL
                /\ \A x \in DOMAIN before :
                       x \notin {HashKey(k) : k \in c.keys}
                           => after[x] = before[x]
                /\ \A j \in 1..Len(heap.hashes) :
                       j # hash.href => r.heap.hashes[j] = heap.hashes[j]
                /\ r.heap.arrays = heap.arrays /\ r.heap.bufs = heap.bufs

\* let h = {"a": 2, "b": 3}; ... h.delete("a"); h["a"]; has run: the delete
\* gave h, h["a"] read Null, and "b" is still 3.
C20_Witness ==
    /\ epc = "done"
    /\ input = Prelude \o MethodCall("h", "delete", Str("a")) \o S(";")
                       \o Id("h") \o S("[") \o Str("a") \o S("]") \o S(";")
    /\ Len(trace) = 5
    /\ trace[4] = Get(heap.envs, 1, "h").obj
    /\ trace[5] = NULL
    /\ heap.hashes[trace[4].href][HashKey(String(<<"a">>))]
           = HashPair(NULL, NULL)
    /\ heap.hashes[trace[4].href][HashKey(String(<<"b">>))]
           = HashPair(String(<<"b">>), Integer(3))

(***************************************************************************)
(* Truthiness                                                              *)
(***************************************************************************)
\* What Eval gives for the statement with the tokens src.
ValueOf(src) == Eval(StatementOf(src)).obj

\* if (x) { 1 } else { 2 }
IfElse(x) ==
    IfOpen(x) \o I(<<"1">>) \o S("}") \o S("ELSE") \o S("{") \o I(<<"2">>)
        \o S("}")

\* C21: when !x has been evaluated for an operand x whose value v is not an
\* Error, the result is true exactly when v is Null or false and is false
\* otherwise (the Integer 0 included); if (x) takes its consequence exactly
\* when !x is false; !!x is true exactly when v is neither Null nor false;
\* and !!!x is what !x is.
C21_OneTruthiness ==
    (epc = "done" /\ Len(input) > 0 /\ input[1] = Sym("!")) =>
        \A x \in OperandPhrases :
            (input = S("!") \o x /\ ~isError(ValueOf(x))
                /\ ~IsPanic(ValueOf(x))) =>
                LET v == ValueOf(x) IN
                /\ result \in {TRUE_OBJ, FALSE_OBJ}
                /\ result = TRUE_OBJ <=> v \in {NULL, FALSE_OBJ}
                /\ ValueOf(IfElse(x)) \in {Integer(1), Integer(2)}
                /\ ValueOf(IfElse(x)) = Integer(1) <=> result = FALSE_OBJ
                /\ ValueOf(S("!") \o S("!") \o x) \in {TRUE_OBJ, FALSE_OBJ}
                /\ ValueOf(S("!") \o S("!") \o x) = TRUE_OBJ
                       <=> v \notin {NULL, FALSE_OBJ}
                /\ ValueOf(S("!") \o S("!") \o S("!") \o x) = result

\* !0 has been evaluated: it is false, and if (0) takes its consequence.
C21_Witness ==
    /\ epc = "done"
    /\ input = S("!") \o I(<<"0">>)
    /\ result = FALSE_OBJ
    /\ ValueOf(IfElse(I(<<"0">>))) = Integer(1)

(***************************************************************************)
(* The for statement                                                       *)
(***************************************************************************)
\* C22: for (let x = A; x < N; x = x + 1) { BODY } with A <= N evaluates
\* BODY N - A times with x = A, ..., N - 1 in that order, the update after
\* each, and ends when x < N is false (x is N then); a variable of an outer
\* scope that BODY assigns holds N - 1 afterwards.
C22_ForLoopIterations ==
    (epc = "done" /\ input \in ForSources) =>
        \A a \in 0..MaxLoop, n \in 0..MaxLoop :
            a <= n =>
                /\ input = ForTop(a, n) =>
                      /\ Len(trace) = 6
                      /\ trace[4].type = "ARRAY"
                      /\ Elements(heap, trace[4].ref)
                             = [i \in 1..(n - a) |-> Integer(a + i - 1)]
                      /\ trace[5] = Integer(IF n > a THEN n - 1 ELSE 0)
                      /\ trace[6] = Integer(n)
                /\ input = ForInFn(a, n) =>
                      /\ Len(trace) = 4
                      /\ trace[3] = Integer(IF n > a THEN n - 1 ELSE 0)
                      /\ trace[4] = Integer(IF n > a THEN n - 1 ELSE 0)

(***************************************************************************)
(* Integer literals                                                        *)
(***************************************************************************)
\* C23: an integer literal whose decimal value fits in 64 bits parses
\* without error to an IntegerLiteral with that decimal value, leading
\* zeros or not.
C23_DecimalLiterals ==
    (ppc = "done" /\ input \in IntegerSources) =>
        \A d \in IntegerLiterals :
            (input = I(d) \o S(";")
                /\ ~GreaterDigits(Significant(d), MaxInt64Digits)) =>
                /\ Len(errors) = 0
                /\ Len(statements) = 1
                /\ statements[1].expression.node = "IntegerLiteral"
                /\ statements[1].expression.value = DigitsValue(d, 10, 0)

(***************************************************************************)
(* Statements                                                              *)
(***************************************************************************)
\* C24: return; and a return right before the end of a block or of the
\* input parse to a ReturnStatement and record no error, as return 5; does.
C24_ReturnExpressionOptional ==
    (ppc = "done" /\ input \in ReturnSources) =>
        /\ Len(errors) = 0
        /\ Len(statements) = 1
        /\ \/ statements[1].node = "ReturnStatement"
           \/ /\ statements[1].node = "ExpressionStatement"
              /\ statements[1].expression.node = "IfExpression"
              /\ statements[1].expression.consequence.statements
                    = <<StatementOf(SubSeq(input, 6, Len(input) - 1))>>
              /\ StatementOf(SubSeq(input, 6, Len(input) - 1)).node
                    = "ReturnStatement"

\* C25: on every token sequence ParseProgram returns after at most as many
\* iterations of its statement loop as there are tokens: an iteration starts
\* before the end of the input and leaves the cursor further on (whatever the
\* block, hash literal and list loops inside it met), and at the end of the
\* input the loop is left.
C25_ParseProgramTerminates ==
    [][/\ (ppc = "parse" /\ pos <= Len(input))
            => (ppc' = "parse" /\ pos' > pos)
       /\ (ppc = "parse" /\ pos > Len(input)) => ppc' = "done"]_vars

\* fn ( x ) { { x :  has been parsed to its end: the hash literal loop and
\* the block loop met EOF and returned, with errors recorded.
C25_Witness ==
    /\ ppc = "done"
    /\ input = <<Sym("FUNCTION"), Sym("("), IdentTok("x"), Sym(")"), Sym("{"),
                 Sym("{"), IdentTok("x"), Sym(":")>>
    /\ pos > Len(input)
    /\ Len(errors) > 0


\* C26: S1; S2; parses to the two statements S1 and S2, whatever kind of
\* expression S1 is and also when S2 begins with ( , [ or - .
C26_SemicolonEndsStatement ==
    (ppc = "done" /\ input \in SemicolonSources) =>
        \E s1 \in FirstStatements, s2 \in SecondStatements :
            /\ input = s1 \o S(";") \o s2 \o S(";")
            /\ Len(errors) = 0
            /\ statements
                = <<StatementOf(s1 \o S(";")), StatementOf(s2 \o S(";"))>>


\* C27: in an AST parsed without errors every parameter of a FunctionLiteral
\* and the method name of every InternalFunctionCall was built from an IDENT
\* token.
C27_NamesAreIdentifiers ==
    (ppc = "done" /\ input \in NameSources /\ Len(errors) = 0) =>
        LET e == statements[1].expression IN
        /\ e.node = "FunctionLiteral" =>
                \A i \in 1..Len(e.parameters) : e.parameters[i].token = "IDENT"
        /\ e.node = "InternalFunctionCall" => e.function.token = "IDENT"


\* C28: a delete call that returns its Hash leaves the number of entries of
\* the Hash as it was, and leaves the Hash unchanged when none of the keys
\* was present.
C28_DeleteAddsNoEntry ==
    \A i \in 1..Len(trace) :
        (trace[i].op = "delete" /\ trace[i].ret.type = "HASH") =>
            LET k == trace[i].args[1].href
                before == BuiltinHeap.hashes[k]
                after == heap.hashes[k]
                keys == {HashKey(trace[i].args[j]) : j \in 2..Len(trace[i].args)}
            IN
            /\ Cardinality(DOMAIN after) = Cardinality(DOMAIN before)
            /\ keys \cap DOMAIN before = {} => after = before


(***************************************************************************)
(* Values that are missing                                                 *)
(***************************************************************************)
\* C29: pop, shift, first, last and rest called on an empty Array return
\* Null or an Error, without aborting, and the Array is still empty.
C29_EmptyArrayIsSafe ==
    [][\A e \in {trace'[Len(trace')]} :
        (/\ Made(e)
         /\ e.op \in {"pop", "shift", "first", "last", "rest"}
         /\ Len(e.args) = 1
         /\ e.args[1].type = "ARRAY"
         /\ Elements(heap, e.args[1].ref) = <<>>) =>
            /\ IsObject(e.ret)
            /\ e.ret.type \in {"NULL", "ERROR"}
            /\ opc' # "aborted"
            /\ Elements(heap', e.args[1].ref) = <<>>
      ]_vars


\* -x and !x, x op y for x or y the if-expression  if (true) { } , which
\* produces no value.
NilOperandSources ==
    {S(op) \o EmptyIf : op \in {"-", "!"}}
    \cup {EmptyIf \o S(op) \o y : y \in OperandPhrases, op \in BinaryOps}
    \cup {x \o S(op) \o EmptyIf : x \in OperandPhrases, op \in BinaryOps}

\* C30: a prefix or infix expression with an operand that produces no value
\* is evaluated without an abort and yields an Object.
C30_NilOperandIsSafe ==
    (input \in NilOperandSources /\ epc \in {"done", "panic"}) =>
        /\ epc = "done"
        /\ IsObject(result)

=========================================================================
